---- MODULE Spec2Model ----
(***************************************************************************)
(* A model of todo-vibe: the task record and its mutators                  *)
(* (src/src/domain/task.ts), the tree builder and the ancestor/descendant  *)
(* traversals, the view predicate, and the handlers of the Home component  *)
(* (src/src/app/page.tsx) that replace the in-memory task collection.      *)
(*                                                                         *)
(* Representation.                                                         *)
(*  - A Date is its instant, an integer number of ticks since the epoch;   *)
(*    TicksPerDay ticks make one day.  The local calendar fields of a Date *)
(*    (getFullYear/getMonth/getDate) are read through the environment's    *)
(*    zone offset tz (local = UTC + tz ticks); the triple (year, month,    *)
(*    date) is represented by the day number it denotes.                   *)
(*  - An ISO string (Date.toISOString) is the pair <<date, time>> of its   *)
(*    date part (the text before "T": the UTC day) and its time part (the  *)
(*    UTC tick within that day).                                           *)
(*  - Any other string is the sequence of its characters.                  *)
(*  - A value of type Date | null is <<>> or the one-element tuple <<d>>.   *)
(*  - A null string is Null; a task id is a positive integer               *)
(*    (crypto.randomUUID yields an id no other task has) and a null id is  *)
(*    NullId.                                                              *)
(***************************************************************************)
EXTENDS Integers, Sequences, FiniteSets, TLC

VARIABLES
    tasks,      \* Home: const [tasks, setTasks] = useState<Task[]>([])
    now,        \* the environment's clock: what new Date() reads
    tz,         \* the environment's zone offset, in ticks
    last,       \* history: the handler that ran last and its argument
    tree,       \* <<buildTaskTree(tasks)>> once it was called, else Null
    flat,       \* <<flattenTaskTree(tree)>> once it was called, else Null
    editingDue, \* Home: <<editingDueId, editingDueDate>>, Null while no editor is open
    storage,    \* the environment's window and localStorage
    addingSubtaskFor \* Home: the id of the task whose subtask input is open, else NullId

vars == <<tasks, now, tz, last, tree, flat, editingDue, storage, addingSubtaskFor>>

----------------------------------------------------------------------------
(* Bounds of the model *)

MaxTasks == 3       \* tasks the user creates in one run
MaxNow == 1         \* last reading of the clock
MaxNodes == 3       \* size of an arbitrary input collection
TicksPerDay == 2    \* granularity of an instant within a day
MaxTitleLen == 2    \* length of a title text given to createTask, updateTitle
MaxTitled == 2      \* tasks created from title texts
MaxLen == 6         \* length of a text given to extractTags
MaxStored == 2      \* tasks in the stored snapshot

(* Program constants *)

Null == <<>>
NullId == 0

(* a browser whose localStorage has no item and does not fail *)
NoStorage == [browser |-> TRUE, getFails |-> FALSE, setFails |-> FALSE, item |-> Null]
TASK_STORAGE_VERSION == 1
UpcomingDays == 7

----------------------------------------------------------------------------
(* Generic helpers on sequences and sets *)

Range(s) == {s[i] : i \in 1..Len(s)}

(* Array.prototype.map *)
Map(s, F(_)) == [i \in 1..Len(s) |-> F(s[i])]

(* Array.prototype.find: the first element satisfying P, or Null *)
Find(s, P(_)) ==
    IF \E i \in 1..Len(s) : P(s[i])
    THEN s[CHOOSE i \in 1..Len(s) : P(s[i]) /\ \A j \in 1..(i-1) : ~P(s[j])]
    ELSE Null

----------------------------------------------------------------------------
(* Dates *)

(* Date.prototype.toISOString *)
toISOString(d) == <<d \div TicksPerDay, d % TicksPerDay>>

(* new Date(isoString) *)
newDate(iso) == iso[1] * TicksPerDay + iso[2]

(* String.prototype.localeCompare on two ISO strings: the date parts are
   compared first, then the time parts (both have a fixed width) *)
localeCompare(a, b) ==
    IF a[1] < b[1] THEN -1
    ELSE IF a[1] > b[1] THEN 1
    ELSE IF a[2] < b[2] THEN -1
    ELSE IF a[2] > b[2] THEN 1
    ELSE 0

(* the local calendar day (getFullYear, getMonth, getDate) of a Date in zone z *)
localDay(d, z) == (d + z) \div TicksPerDay

(* new Date(y, m, d): local midnight of a calendar day in zone z *)
localMidnight(day, z) == day * TicksPerDay - z

(* parseLocalDate: a "YYYY-MM-DD" text, given by its day number *)
parseLocalDate(dateStr, z) == localMidnight(dateStr, z)

isSameDay(a, b, z) == localDay(a, z) = localDay(b, z)

startOfDay(date, z) == localMidnight(localDay(date, z), z)

(* d.setDate(d.getDate() + days): the same local time of day, days later *)
addDays(date, days, z) ==
    localMidnight(localDay(date, z) + days, z) + (date - startOfDay(date, z))

(* mutant: the end of the window is included *)
isWithinNextDaysInclusive(date, from, days, z) ==
    LET start == startOfDay(from, z)
        end == startOfDay(addDays(from, days, z), z)
        time == date
    IN time > start /\ time <= end

isWithinNextDays(date, from, days, z) ==
    LET start == startOfDay(from, z)
        end == startOfDay(addDays(from, days, z), z)
        time == date
    IN time > start /\ time < end

----------------------------------------------------------------------------
(* Strings *)

IsSpace(c) == c = " "

RECURSIVE trimStart(_)
trimStart(s) ==
    IF s # <<>> /\ IsSpace(Head(s)) THEN trimStart(Tail(s)) ELSE s

RECURSIVE trimEnd(_)
trimEnd(s) ==
    IF s # <<>> /\ IsSpace(s[Len(s)]) THEN trimEnd(SubSeq(s, 1, Len(s) - 1)) ELSE s

(* String.prototype.trim *)
trim(s) == trimEnd(trimStart(s))

(* String.prototype.split(/\s+/): the pieces between maximal runs of
   whitespace; cur is the piece being read, inRun whether the previous
   character was whitespace *)
RECURSIVE splitFrom(_, _, _)
splitFrom(s, cur, inRun) ==
    IF s = <<>> THEN <<cur>>
    ELSE IF IsSpace(Head(s))
         THEN IF inRun THEN splitFrom(Tail(s), <<>>, TRUE)
              ELSE <<cur>> \o splitFrom(Tail(s), <<>>, TRUE)
         ELSE splitFrom(Tail(s), Append(cur, Head(s)), FALSE)

split(s) == splitFrom(s, <<>>, FALSE)

(* Array.prototype.join(" ") *)
RECURSIVE join(_)
join(words) ==
    IF words = <<>> THEN <<>>
    ELSE IF Len(words) = 1 THEN words[1]
    ELSE words[1] \o <<" ">> \o join(Tail(words))

startsWithHash(w) == w # <<>> /\ Head(w) = "#"

(* mutant: a lone "#" is taken as a tag too *)
RECURSIVE extractLoopLoneHash(_, _, _)
extractLoopLoneHash(words, tags, titleWords) ==
    IF words = <<>> THEN [tags |-> tags, titleWords |-> titleWords]
    ELSE LET w == Head(words)
         IN IF startsWithHash(w)
            THEN extractLoopLoneHash(Tail(words), Append(tags, Tail(w)), titleWords)
            ELSE extractLoopLoneHash(Tail(words), tags, Append(titleWords, w))

RECURSIVE extractLoop(_, _, _)
extractLoop(words, tags, titleWords) ==
    IF words = <<>> THEN [tags |-> tags, titleWords |-> titleWords]
    ELSE LET w == Head(words)
         IN IF startsWithHash(w) /\ Len(w) > 1
            THEN extractLoop(Tail(words), Append(tags, Tail(w)), titleWords)
            ELSE extractLoop(Tail(words), tags, Append(titleWords, w))

extractTags(raw) ==
    LET r == extractLoop(split(raw), <<>>, <<>>)
    IN [cleanTitle |-> trim(join(r.titleWords)), tags |-> r.tags]

----------------------------------------------------------------------------
(* Task entity and mutators *)

(* mutant: createTask accepts every title *)
createTaskNeverThrows(title) == FALSE

(* createTask throws when the trimmed title is empty *)
createTaskThrows(title) == trim(title) = <<>>

(* mutant: the title is the tag-stripped title, with no fallback *)
createTaskCleanTitleOnly(title, dueAt, parentId, nowv, id) ==
    LET trimmed == trim(title)
        timestamp == toISOString(nowv)
        x == extractTags(trimmed)
    IN [id |-> id,
        title |-> x.cleanTitle,
        completed |-> FALSE,
        dueAt |-> IF dueAt # Null THEN toISOString(dueAt[1]) ELSE Null,
        parentId |-> parentId,
        tags |-> x.tags,
        createdAt |-> timestamp,
        updatedAt |-> timestamp,
        deletedAt |-> Null,
        version |-> TASK_STORAGE_VERSION]

(* createTask(title, {dueAt, parentId, now}); id is the fresh randomUUID;
   dueAt is a Date or Null *)
createTask(title, dueAt, parentId, nowv, id) ==
    LET trimmed == trim(title)
        timestamp == toISOString(nowv)
        x == extractTags(trimmed)
    IN [id |-> id,
        title |-> IF x.cleanTitle # <<>> THEN x.cleanTitle ELSE trimmed,
        completed |-> FALSE,
        dueAt |-> IF dueAt # Null THEN toISOString(dueAt[1]) ELSE Null,
        parentId |-> parentId,
        tags |-> x.tags,
        createdAt |-> timestamp,
        updatedAt |-> timestamp,
        deletedAt |-> Null,
        version |-> TASK_STORAGE_VERSION]

toggleComplete(task, nowv) ==
    [task EXCEPT !.completed = ~task.completed, !.updatedAt = toISOString(nowv)]

setCompleted(task, completed, nowv) ==
    [task EXCEPT !.completed = completed, !.updatedAt = toISOString(nowv)]

(* mutant: no early return on a blank title *)
updateTitleOfBlank(task, title, nowv) ==
    LET trimmed == trim(title)
        x == extractTags(trimmed)
    IN [task EXCEPT
            !.title = IF x.cleanTitle # <<>> THEN x.cleanTitle ELSE trimmed,
            !.tags = x.tags,
            !.updatedAt = toISOString(nowv)]

updateTitle(task, title, nowv) ==
    LET trimmed == trim(title)
        x == extractTags(trimmed)
    IN IF trimmed = <<>> THEN task
       ELSE [task EXCEPT
                !.title = IF x.cleanTitle # <<>> THEN x.cleanTitle ELSE trimmed,
                !.tags = x.tags,
                !.updatedAt = toISOString(nowv)]

softDelete(task, nowv) ==
    [task EXCEPT !.deletedAt = toISOString(nowv), !.updatedAt = toISOString(nowv)]

(* dueAt is a Date or Null *)
setDueDate(task, dueAt, nowv) ==
    [task EXCEPT
        !.dueAt = IF dueAt # Null THEN toISOString(dueAt[1]) ELSE Null,
        !.updatedAt = toISOString(nowv)]

----------------------------------------------------------------------------
(* Traversals *)

IsLive(t) == t.deletedAt = Null

(* tasks.find((t) => t.id === id && !t.deletedAt): Null when there is none *)
findLive(id, ts) == Find(ts, LAMBDA t : t.id = id /\ IsLive(t))

(* tasks.find((t) => t.id === id) *)
findById(id, ts) == Find(ts, LAMBDA t : t.id = id)

(* getAllDescendantIds.collect: the ids added by collect(id) and the calls it
   makes.  A chain of nested calls longer than the collection visits some task
   twice and so never ends (the call stack overflows): overflow records it,
   and fuel is the number of nested calls still allowed before that. *)
RECURSIVE collect(_, _, _)
collect(id, ts, fuel) ==
    LET kids == {i \in 1..Len(ts) :
                    ts[i].parentId = id /\ ts[i].deletedAt = Null}
        sub == [i \in kids |-> collect(ts[i].id, ts, fuel - 1)]
    IN IF fuel = 0
       THEN [ids |-> {}, overflow |-> TRUE]
       ELSE [ids |-> {ts[i].id : i \in kids}
                      \cup UNION {sub[i].ids : i \in kids},
             overflow |-> \E i \in kids : sub[i].overflow]

(* mutant: collect does not call itself *)
getAllDescendantIdsChildrenOnly(taskId, ts) ==
    {ts[i].id : i \in {j \in 1..Len(ts) :
                          ts[j].parentId = taskId /\ ts[j].deletedAt = Null}}

getAllDescendantIds(taskId, ts) == collect(taskId, ts, Len(ts) + 1).ids

(* the recursion of getAllDescendantIds does not end *)
getAllDescendantIdsOverflows(taskId, ts) ==
    collect(taskId, ts, Len(ts) + 1).overflow

(* mutant: the loop stops behind the parent *)
ancestorLoopParentOnly(currentId, ts, result, fuel) ==
    IF currentId = NullId THEN [ids |-> result, hangs |-> FALSE]
    ELSE LET parent == findLive(currentId, ts)
         IN IF parent = Null THEN [ids |-> result, hangs |-> FALSE]
            ELSE [ids |-> Append(result, parent.id), hangs |-> FALSE]

(* mutant: result.unshift instead of result.push *)
RECURSIVE ancestorLoopUnshift(_, _, _, _)
ancestorLoopUnshift(currentId, ts, result, fuel) ==
    IF currentId = NullId THEN [ids |-> result, hangs |-> FALSE]
    ELSE LET parent == findLive(currentId, ts)
         IN IF parent = Null THEN [ids |-> result, hangs |-> FALSE]
            ELSE IF fuel = 0 THEN [ids |-> result, hangs |-> TRUE]
            ELSE ancestorLoopUnshift(parent.parentId, ts, <<parent.id>> \o result,
                                     fuel - 1)

(* mutant: the parent is looked up among the soft-deleted tasks too *)
RECURSIVE ancestorLoopThroughDeleted(_, _, _, _)
ancestorLoopThroughDeleted(currentId, ts, result, fuel) ==
    IF currentId = NullId THEN [ids |-> result, hangs |-> FALSE]
    ELSE LET parent == findById(currentId, ts)
         IN IF parent = Null THEN [ids |-> result, hangs |-> FALSE]
            ELSE IF fuel = 0 THEN [ids |-> result, hangs |-> TRUE]
            ELSE ancestorLoopThroughDeleted(parent.parentId, ts,
                                            Append(result, parent.id), fuel - 1)

(* the while loop of getAncestorIds.  More iterations than the collection has
   ts visit some task twice, and the loop then never ends: hangs records
   it, and fuel is the number of iterations still allowed before that. *)
RECURSIVE ancestorLoop(_, _, _, _)
ancestorLoop(currentId, ts, result, fuel) ==
    IF currentId = NullId THEN [ids |-> result, hangs |-> FALSE]
    ELSE LET parent == findLive(currentId, ts)
         IN IF parent = Null THEN [ids |-> result, hangs |-> FALSE]
            ELSE IF fuel = 0 THEN [ids |-> result, hangs |-> TRUE]
            ELSE ancestorLoop(parent.parentId, ts, Append(result, parent.id),
                              fuel - 1)

ancestorWalk(taskId, ts) ==
    LET task == findLive(taskId, ts)
    IN IF task = Null \/ task.parentId = NullId
       THEN [ids |-> <<>>, hangs |-> FALSE]
       ELSE ancestorLoop(task.parentId, ts, <<>>, Len(ts))

getAncestorIds(taskId, ts) == ancestorWalk(taskId, ts).ids

(* the loop of getAncestorIds does not end *)
getAncestorIdsHangs(taskId, ts) == ancestorWalk(taskId, ts).hangs

----------------------------------------------------------------------------
(* Tree builder.  A TaskTreeNode is [task, children, depth]; while the tree
   is being linked a node is named by its task's id, kids[id] is its children
   array and roots the array of the roots. *)

(* mutant: the first pass does not skip the soft-deleted tasks *)
taskMapKeysWithDeleted(ts) == {ts[i].id : i \in 1..Len(ts)}

(* first pass: taskMap.set(task.id, node) for every task not deleted; the
   keys of taskMap *)
taskMapKeys(ts) == {ts[i].id : i \in {j \in 1..Len(ts) : ts[j].deletedAt = Null}}

(* taskMap.get(id).task: a later set of the same key replaces an earlier one *)
taskMapTask(id, ts) ==
    ts[CHOOSE i \in 1..Len(ts) :
          /\ ts[i].id = id /\ ts[i].deletedAt = Null
          /\ \A j \in (i+1)..Len(ts) : ~(ts[j].id = id /\ ts[j].deletedAt = Null)]

(* second pass, from the i-th task on: push each node to its parent's
   children, or to roots *)
RECURSIVE linkPass(_, _, _)
linkPass(ts, i, g) ==
    IF i > Len(ts) THEN g
    ELSE LET task == ts[i]
         IN IF task.deletedAt # Null THEN linkPass(ts, i + 1, g)
            ELSE IF task.parentId # NullId /\ task.parentId \in taskMapKeys(ts)
            THEN linkPass(ts, i + 1,
                     [g EXCEPT !.kids[task.parentId] = Append(@, task.id)])
            ELSE linkPass(ts, i + 1, [g EXCEPT !.roots = Append(@, task.id)])

linkNodes(ts) ==
    linkPass(ts, 1, [kids |-> [id \in taskMapKeys(ts) |-> <<>>], roots |-> <<>>])

(* mutant: the children get the depth of their parent *)
RECURSIVE assignDepthSameLevel(_, _, _, _)
assignDepthSameLevel(nodes, depth, kids, dm) ==
    IF nodes = <<>> THEN dm
    ELSE LET node == Head(nodes)
             d1 == [dm EXCEPT ![node] = depth]
             d2 == assignDepthSameLevel(kids[node], depth, kids, d1)
         IN assignDepthSameLevel(Tail(nodes), depth, kids, d2)

(* third pass: assignDepth(nodes, depth); dm maps a node to its depth, 0 as
   long as assignDepth has not reached it *)
RECURSIVE assignDepth(_, _, _, _)
assignDepth(nodes, depth, kids, dm) ==
    IF nodes = <<>> THEN dm
    ELSE LET node == Head(nodes)
             d1 == [dm EXCEPT ![node] = depth]
             d2 == assignDepth(kids[node], depth + 1, kids, d1)
         IN assignDepth(Tail(nodes), depth, kids, d2)

(* mutant: an element goes before the elements that compare equal *)
RECURSIVE insertNodeBeforeEqual(_, _, _)
insertNodeBeforeEqual(sorted, x, ts) ==
    IF sorted = <<>> THEN <<x>>
    ELSE IF localeCompare(taskMapTask(Head(sorted), ts).createdAt,
                          taskMapTask(x, ts).createdAt) < 0
         THEN <<Head(sorted)>> \o insertNodeBeforeEqual(Tail(sorted), x, ts)
         ELSE <<x>> \o sorted

(* Array.prototype.sort with the comparator of sortNodes; the sort is stable:
   an element goes behind every element that does not compare greater *)
RECURSIVE insertNode(_, _, _)
insertNode(sorted, x, ts) ==
    IF sorted = <<>> THEN <<x>>
    ELSE IF localeCompare(taskMapTask(Head(sorted), ts).createdAt,
                          taskMapTask(x, ts).createdAt) <= 0
         THEN <<Head(sorted)>> \o insertNode(Tail(sorted), x, ts)
         ELSE <<x>> \o sorted

(* mutant: the sibling lists are left in the order of the second pass *)
sortByCreatedAtUnsorted(nodes, ts) == nodes

RECURSIVE sortByCreatedAt(_, _)
sortByCreatedAt(nodes, ts) ==
    IF nodes = <<>> THEN <<>>
    ELSE insertNode(sortByCreatedAt(SubSeq(nodes, 1, Len(nodes) - 1), ts),
                    nodes[Len(nodes)], ts)

RECURSIVE sortNodes(_, _, _, _)
sortNodes(nodes, ts, kids, dm) ==
    LET sorted == sortByCreatedAt(nodes, ts)
    IN [i \in 1..Len(sorted) |->
           [task |-> taskMapTask(sorted[i], ts),
            children |-> sortNodes(kids[sorted[i]], ts, kids, dm),
            depth |-> dm[sorted[i]]]]

buildTaskTree(ts) ==
    LET g == linkNodes(ts)
        dm == assignDepth(g.roots, 0, g.kids, [id \in taskMapKeys(ts) |-> 0])
    IN sortNodes(g.roots, ts, g.kids, dm)

(* flattenTaskTree: depth first, a node before its children *)
RECURSIVE flattenTaskTree(_)
flattenTaskTree(nodes) ==
    IF nodes = <<>> THEN <<>>
    ELSE <<[task |-> Head(nodes).task, depth |-> Head(nodes).depth,
            children |-> Head(nodes).children]>>
         \o flattenTaskTree(Head(nodes).children)
         \o flattenTaskTree(Tail(nodes))

----------------------------------------------------------------------------
(* Storage (src/src/data/taskStorage.ts).

   The environment is storage: browser says whether window is defined,
   getFails and setFails whether localStorage.getItem and setItem throw, item
   is the text under STORAGE_KEY, Null when there is none.

   A text is the empty text, a text JSON.parse rejects, or the JSON text of a
   value.  A value is an array of tasks, an object with the properties
   version and tasks, or something else.  A task holds only strings,
   booleans, numbers and null, which JSON.stringify writes and JSON.parse
   reads back as they were; a property a task does not have is not written
   and is not there after reading.  The file holds two definitions of
   loadTasks: the second one is loadTasks_2. *)

EmptyText == [text |-> "empty"]

Garbage == [text |-> "garbage"]

JSONstringify(value) == [text |-> "json", value |-> value]

Return(value) == [threw |-> FALSE, value |-> value]

Throw == [threw |-> TRUE, value |-> Null]

JSONparse(text) == IF text.text = "json" THEN Return(text.value) ELSE Throw

JArray(items) == [type |-> "array", items |-> items]

JObject(version, tasksValue) == [type |-> "object", version |-> version, tasks |-> tasksValue]

JNull == [type |-> "null"]

JNumber == [type |-> "number"]

JUndefined == [type |-> "undefined"]

(* { ...t, parentId: t.parentId ?? null } *)
normalizeTask(t) ==
    [f \in DOMAIN t \cup {"parentId"} |-> IF f \in DOMAIN t THEN t[f] ELSE NullId]

(* the try block of loadTasks *)
loadTasksTry(st) ==
    IF st.getFails THEN Throw
    ELSE LET raw == st.item
         IN IF raw = Null \/ raw = EmptyText THEN Return(<<>>)
            ELSE LET parsed == JSONparse(raw)
                 IN IF parsed.threw THEN Throw
                    ELSE IF parsed.value.type = "array"
                         THEN Return(Map(parsed.value.items, normalizeTask))
                    ELSE IF parsed.value.type = "object" /\ parsed.value.tasks.type = "array"
                         THEN Return(Map(parsed.value.tasks.items, normalizeTask))
                    ELSE Return(<<>>)

(* mutant: no catch around the body *)
loadTasksUncaught(st) ==
    IF ~st.browser THEN Return(<<>>) ELSE loadTasksTry(st)

loadTasks(st) ==
    IF ~st.browser THEN Return(<<>>)
    ELSE LET r == loadTasksTry(st)
         IN IF r.threw THEN Return(<<>>) ELSE r

(* the try block of the second definition of loadTasks *)
loadTasksTry_2(st) ==
    IF st.getFails THEN Throw
    ELSE LET raw == st.item
         IN IF raw = Null \/ raw = EmptyText THEN Return(<<>>)
            ELSE LET parsed == JSONparse(raw)
                 IN IF parsed.threw THEN Throw
                    ELSE IF parsed.value.type = "array"
                         THEN Return(parsed.value.items)
                    ELSE IF parsed.value.type = "object" /\ parsed.value.tasks.type = "array"
                         THEN Return(parsed.value.tasks.items)
                    ELSE Return(<<>>)

loadTasks_2(st) ==
    IF ~st.browser THEN Return(<<>>)
    ELSE LET r == loadTasksTry_2(st)
         IN IF r.threw THEN Return(<<>>) ELSE r

(* window.localStorage.setItem(STORAGE_KEY, text) *)
setItem(st, text) ==
    IF st.setFails THEN [threw |-> TRUE, storage |-> st]
    ELSE [threw |-> FALSE, storage |-> [st EXCEPT !.item = text]]

(* mutant: nothing is written *)
saveTasksNothing(ts, st) == [threw |-> FALSE, storage |-> st]

(* saveTasks(tasks): the storage it leaves, and whether it threw *)
saveTasks(ts, st) ==
    IF ~st.browser THEN [threw |-> FALSE, storage |-> st]
    ELSE LET payload == JObject(TASK_STORAGE_VERSION, JArray(ts))
             r == setItem(st, JSONstringify(payload))
         IN IF r.threw THEN [threw |-> FALSE, storage |-> st] ELSE r

----------------------------------------------------------------------------
(* Search *)

(* String.prototype.toLowerCase, on the letters a title is typed with *)
toLowerCase(str) ==
    [i \in 1..Len(str) |->
        CASE str[i] = "A" -> "a"
          [] str[i] = "T" -> "t"
          [] OTHER -> str[i]]

(* String.prototype.includes *)
includes(str, q) ==
    \E i \in 1..(Len(str) - Len(q) + 1) : SubSeq(str, i, i + Len(q) - 1) = q

matchesSearch(task, query) ==
    LET q == toLowerCase(trim(query))
    IN IF q = <<>> THEN TRUE
       ELSE IF includes(toLowerCase(task.title), q) THEN TRUE
       ELSE \E i \in 1..Len(task.tags) : includes(toLowerCase(task.tags[i]), q)

----------------------------------------------------------------------------
(* Effective due date.  page.tsx (src/unnamed/part_001) imports
   getEffectiveDueDate and calls isVisibleInView with the whole collection as
   a fourth argument; the module it imports them from is not among the source
   files, and both are written here from sections 4.4 and 4.5 of the
   specification. *)

(* the first of the ids, in their order, whose task has a dueAt *)
RECURSIVE firstDueAt(_, _)
firstDueAt(ids, ts) ==
    IF ids = <<>> THEN Null
    ELSE LET a == findById(Head(ids), ts)
         IN IF a # Null /\ a.dueAt # Null THEN a.dueAt
            ELSE firstDueAt(Tail(ids), ts)

(* effectiveDueDate(task, tasks): the task's own dueAt if set; otherwise the
   dueAt of the first ancestor, nearest first, that has one; otherwise null *)
getEffectiveDueDate(task, ts) ==
    IF task.dueAt # Null THEN task.dueAt
    ELSE firstDueAt(getAncestorIds(task.id, ts), ts)

----------------------------------------------------------------------------
(* Views *)

Views == {"inbox", "today", "upcoming", "completed", "calendar"}

(* mutant: no test of deletedAt *)
isVisibleInViewOfDeleted(task, view, nowv, z) ==
    LET dueDate == IF task.dueAt # Null THEN <<newDate(task.dueAt)>> ELSE Null
    IN CASE view = "inbox" -> dueDate = Null
         [] view = "completed" -> task.completed
         [] view = "today" ->
               IF dueDate = Null THEN FALSE
               ELSE isSameDay(dueDate[1], nowv, z)
         [] view = "upcoming" ->
               IF dueDate = Null THEN FALSE
               ELSE isWithinNextDays(dueDate[1], nowv, UpcomingDays, z)
                    /\ ~isSameDay(dueDate[1], nowv, z)
         [] view = "calendar" -> FALSE
         [] OTHER -> TRUE

(* mutant: "upcoming" does not exclude the day of now *)
isVisibleInViewUpcomingToday(task, view, nowv, z) ==
    IF task.deletedAt # Null THEN FALSE
    ELSE LET dueDate == IF task.dueAt # Null THEN <<newDate(task.dueAt)>> ELSE Null
         IN CASE view = "inbox" -> dueDate = Null
              [] view = "completed" -> task.completed
              [] view = "today" ->
                    IF dueDate = Null THEN FALSE
                    ELSE isSameDay(dueDate[1], nowv, z)
              [] view = "upcoming" ->
                    IF dueDate = Null THEN FALSE
                    ELSE isWithinNextDays(dueDate[1], nowv, UpcomingDays, z)
              [] view = "calendar" -> FALSE
              [] OTHER -> TRUE

(* isVisibleInView(task, view, now), read in zone z *)
isVisibleInView(task, view, nowv, z) ==
    IF task.deletedAt # Null THEN FALSE
    ELSE LET dueDate == IF task.dueAt # Null THEN <<newDate(task.dueAt)>> ELSE Null
         IN CASE view = "inbox" -> dueDate = Null
              [] view = "completed" -> task.completed
              [] view = "today" ->
                    IF dueDate = Null THEN FALSE
                    ELSE isSameDay(dueDate[1], nowv, z)
              [] view = "upcoming" ->
                    IF dueDate = Null THEN FALSE
                    ELSE isWithinNextDays(dueDate[1], nowv, UpcomingDays, z)
                         /\ ~isSameDay(dueDate[1], nowv, z)
              [] view = "calendar" -> FALSE
              [] OTHER -> TRUE

(* isVisible(task, view, now, allTasks) of section 4.5: the rules of
   isVisibleInView, read on the effective due date *)
isVisibleInViewAll(task, view, nowv, ts, z) ==
    isVisibleInView([task EXCEPT !.dueAt = getEffectiveDueDate(task, ts)],
                    view, nowv, z)

(* mutant: the forest is built from the whole collection *)
visibleTasksV1Unfiltered(ts, view, query, nowv, z) == buildTaskTree(ts)

(* Home.visibleTasks of src/src/app/page.tsx, where isVisibleInView reads the
   task's own dueAt: the forest built from the tasks that pass the view's
   filter and the search *)
visibleTasksV1(ts, view, query, nowv, z) ==
    buildTaskTree(SelectSeq(ts, LAMBDA t :
        isVisibleInView(t, view, nowv, z) /\ matchesSearch(t, query)))

(* Home.visibleTasks: the forest built from the tasks that pass the view's
   filter and the search *)
visibleTasks(ts, view, query, nowv, z) ==
    buildTaskTree(SelectSeq(ts, LAMBDA t :
        isVisibleInViewAll(t, view, nowv, ts, z) /\ matchesSearch(t, query)))

----------------------------------------------------------------------------
(* Calendar.  A "YYYY-MM-DD" text that is a key of the calendar is the
   one-element tuple of the day it names. *)

(* getTaskDueDateKey(task): task.dueAt.split("T")[0] *)
getTaskDueDateKey(task) ==
    IF task.dueAt = Null THEN Null ELSE <<task.dueAt[1]>>

(* getTaskDueDateKey(task, tasks), as page.tsx (src/unnamed/part_001) calls
   it: the key of the effective due date *)
getTaskDueDateKeyAll(task, ts) ==
    getTaskDueDateKey([task EXCEPT !.dueAt = getEffectiveDueDate(task, ts)])

(* toDateKey(d): the text of d's local year, month and date *)
toDateKey(d, z) == <<localDay(d, z)>>

(* hasChildren of tasksByDate *)
hasChildren(task, ts) ==
    \E i \in 1..Len(ts) : ts[i].deletedAt = Null /\ ts[i].parentId = task.id

(* mutant: tasks with subtasks are bucketed too *)
tasksByDateWithParents(ts, query) ==
    LET keyOf(t) == getTaskDueDateKeyAll(t, ts)
        bucketed(t) == /\ t.deletedAt = Null
                       /\ matchesSearch(t, query)
                       /\ keyOf(t) # Null
        keys == {keyOf(ts[i]) : i \in {j \in 1..Len(ts) : bucketed(ts[j])}}
    IN [key \in keys |-> SelectSeq(ts, LAMBDA t : bucketed(t) /\ keyOf(t) = key)]

(* Home.tasksByDate: the Map from a key to the tasks pushed under it, in the
   order of the collection *)
tasksByDate(ts, query) ==
    LET keyOf(t) == getTaskDueDateKeyAll(t, ts)
        bucketed(t) == /\ t.deletedAt = Null
                       /\ matchesSearch(t, query)
                       /\ ~hasChildren(t, ts)
                       /\ keyOf(t) # Null
        keys == {keyOf(ts[i]) : i \in {j \in 1..Len(ts) : bucketed(ts[j])}}
    IN [key \in keys |-> SelectSeq(ts, LAMBDA t : bucketed(t) /\ keyOf(t) = key)]

----------------------------------------------------------------------------
(* Handlers of Home: each computes the collection that replaces prev *)

(* mutant: a subtask names itself as its parent *)
addTaskOwnParent(prev, title, newDueDate, parentId, nowv, z) ==
    LET dueAt == IF newDueDate # Null
                 THEN <<parseLocalDate(newDueDate[1], z)>> ELSE Null
        task == createTask(title, dueAt,
                           IF parentId # NullId THEN Len(prev) + 1 ELSE NullId,
                           nowv, Len(prev) + 1)
    IN <<task>> \o prev

(* handleAddTask past its guard: setTasks((prev) => [task, ...prev]);
   newDueDate is "" (Null) or the day the date input holds *)
addTask(prev, title, newDueDate, parentId, nowv, z) ==
    LET dueAt == IF newDueDate # Null
                 THEN <<parseLocalDate(newDueDate[1], z)>> ELSE Null
        task == createTask(title, dueAt, parentId, nowv, Len(prev) + 1)
    IN <<task>> \o prev

(* mutant: only the nearest ancestor is checked *)
completeNearestAncestor(next, ancestorIds, nowv) ==
    IF ancestorIds = <<>> THEN next
    ELSE LET aid == Head(ancestorIds)
             descIds == getAllDescendantIds(aid, next)
             allDescendantsDone ==
                 /\ Cardinality(descIds) > 0
                 /\ \A tid \in descIds :
                        LET t == findById(tid, next)
                        IN t # Null /\ t.completed
             ancestor == findById(aid, next)
         IN IF allDescendantsDone /\ ancestor # Null /\ ~ancestor.completed
            THEN Map(next, LAMBDA t : IF t.id = aid
                                      THEN setCompleted(t, TRUE, nowv)
                                      ELSE t)
            ELSE next

(* mutant: an ancestor whose descendants are not all completed is switched
   back to not completed *)
RECURSIVE completeAncestorsBothWays(_, _, _)
completeAncestorsBothWays(next, ancestorIds, nowv) ==
    IF ancestorIds = <<>> THEN next
    ELSE LET aid == Head(ancestorIds)
             descIds == getAllDescendantIds(aid, next)
             allDescendantsDone ==
                 /\ Cardinality(descIds) > 0
                 /\ \A tid \in descIds :
                        LET t == findById(tid, next)
                        IN t # Null /\ t.completed
             ancestor == findById(aid, next)
             next2 == IF ancestor # Null /\ ancestor.completed # allDescendantsDone
                      THEN Map(next, LAMBDA t : IF t.id = aid
                                                THEN setCompleted(t, allDescendantsDone, nowv)
                                                ELSE t)
                      ELSE next
         IN completeAncestorsBothWays(next2, Tail(ancestorIds), nowv)

(* the loop of handleToggleComplete over the ancestors still to check *)
RECURSIVE completeAncestors(_, _, _)
completeAncestors(next, ancestorIds, nowv) ==
    IF ancestorIds = <<>> THEN next
    ELSE LET aid == Head(ancestorIds)
             descIds == getAllDescendantIds(aid, next)
             allDescendantsDone ==
                 /\ Cardinality(descIds) > 0
                 /\ \A tid \in descIds :
                        LET t == findById(tid, next)
                        IN t # Null /\ t.completed
             ancestor == findById(aid, next)
             next2 == IF allDescendantsDone /\ ancestor # Null /\ ~ancestor.completed
                      THEN Map(next, LAMBDA t : IF t.id = aid
                                                THEN setCompleted(t, TRUE, nowv)
                                                ELSE t)
                      ELSE next
         IN completeAncestors(next2, Tail(ancestorIds), nowv)

(* mutant: the descendants of the task get its new completed flag *)
toggleCompleteInWithDescendants(prev, id, nowv) ==
    LET x == findById(id, prev)
        descIds == getAllDescendantIds(id, prev)
        next == Map(prev, LAMBDA t :
                    IF t.id = id THEN toggleComplete(t, nowv)
                    ELSE IF t.id \in descIds
                         THEN setCompleted(t, ~x.completed, nowv)
                         ELSE t)
    IN completeAncestors(next, getAncestorIds(id, next), nowv)

(* the updater handleToggleComplete passes to setTasks *)
toggleCompleteIn(prev, id, nowv) ==
    LET next == Map(prev, LAMBDA t : IF t.id = id THEN toggleComplete(t, nowv) ELSE t)
    IN completeAncestors(next, getAncestorIds(id, next), nowv)

(* mutant: the children of the deleted task are soft-deleted, their own
   children are not *)
deleteChildrenOnly(prev, current, id, nowv) ==
    LET toDelete == {id} \cup {current[i].id : i \in {j \in 1..Len(current) :
                                    current[j].parentId = id}}
    IN Map(prev, LAMBDA t : IF t.id \in toDelete THEN softDelete(t, nowv) ELSE t)

(* mutant: the deleted tasks are dropped from the collection *)
deleteHard(prev, current, id, nowv) ==
    LET toDelete == {id} \cup getAllDescendantIds(id, current)
    IN SelectSeq(prev, LAMBDA t : t.id \notin toDelete)

(* handleDelete once confirmed: current is the collection the handler read
   the descendants from, prev the one the updater replaces *)
deleteIn(prev, current, id, nowv) ==
    LET toDelete == {id} \cup getAllDescendantIds(id, current)
    IN Map(prev, LAMBDA t : IF t.id \in toDelete THEN softDelete(t, nowv) ELSE t)

(* the updater of handleCommitEdit *)
commitEditIn(prev, editingId, title, nowv) ==
    Map(prev, LAMBDA t : IF t.id = editingId THEN updateTitle(t, title, nowv) ELSE t)

(* the updater of commitDueEdit and commitDueEditWithValue; value is ""
   (Null) or the day the date input holds *)
commitDueIn(prev, taskId, value, nowv, z) ==
    Map(prev, LAMBDA t :
        IF t.id = taskId
        THEN setDueDate(t, IF value # Null THEN <<parseLocalDate(value[1], z)>>
                           ELSE Null, nowv)
        ELSE t)

----------------------------------------------------------------------------
(* The application: the user's actions on the collection *)

InputTitles == {<<"a">>, <<" ">>}       \* what the user types as a title
InputDays == {Null, <<1>>}              \* what a date input holds
ZoneOffsets == {-1, 0, 1}

LiveIds == {tasks[i].id : i \in {j \in 1..Len(tasks) : IsLive(tasks[j])}}

NoOp == [op |-> "none", id |-> NullId]

Init ==
    /\ tasks = <<>>
    /\ now = TicksPerDay
    /\ tz = 0
    /\ last = NoOp
    /\ tree = Null
    /\ flat = Null
    /\ editingDue = Null
    /\ storage = NoStorage
    /\ addingSubtaskFor = NullId

Tick ==
    /\ now < TicksPerDay + MaxNow
    /\ now' = now + 1
    /\ UNCHANGED <<tasks, tz, last, tree, flat, editingDue, storage, addingSubtaskFor>>

(* handleAddTask(parentId): a top-level task (parentId null) or a subtask of
   a task shown in the list *)
HandleAddTask ==
    \E parentId \in {NullId} \cup LiveIds, input \in InputTitles, newDueDate \in InputDays :
        LET title == trim(input)
        IN /\ Len(tasks) < MaxTasks
           /\ IF title = <<>> \/ createTaskThrows(title)
              THEN UNCHANGED <<tasks, last, addingSubtaskFor>>
              ELSE /\ tasks' = addTask(tasks, title, newDueDate, parentId, now, tz)
                   /\ last' = [op |-> "add", id |-> Len(tasks) + 1]
           /\ UNCHANGED <<now, tz, tree, flat, editingDue, storage, addingSubtaskFor>>

HandleToggleComplete ==
    \E id \in LiveIds :
        /\ tasks' = toggleCompleteIn(tasks, id, now)
        /\ last' = [op |-> "toggle", id |-> id]
        /\ UNCHANGED <<now, tz, tree, flat, editingDue, storage, addingSubtaskFor>>

(* handleDelete(id); confirmed is the answer of window.confirm *)
HandleDelete ==
    \E id \in LiveIds, confirmed \in BOOLEAN :
        /\ IF confirmed
           THEN /\ tasks' = deleteIn(tasks, tasks, id, now)
                /\ last' = [op |-> "delete", id |-> id]
           ELSE UNCHANGED <<tasks, last, addingSubtaskFor>>
        /\ UNCHANGED <<now, tz, tree, flat, editingDue, storage, addingSubtaskFor>>

(* handleCommitEdit with editingId the task being edited *)
HandleCommitEdit ==
    \E editingId \in LiveIds, editingTitle \in InputTitles :
        LET title == trim(editingTitle)
        IN /\ IF title = <<>>
              THEN UNCHANGED <<tasks, last, addingSubtaskFor>>
              ELSE /\ tasks' = commitEditIn(tasks, editingId, title, now)
                   /\ last' = [op |-> "rename", id |-> editingId]
           /\ UNCHANGED <<now, tz, tree, flat, editingDue, storage, addingSubtaskFor>>

CommitDueEdit ==
    \E taskId \in LiveIds, value \in InputDays :
        /\ tasks' = commitDueIn(tasks, taskId, value, now, tz)
        /\ last' = [op |-> "due", id |-> taskId]
        /\ UNCHANGED <<now, tz, tree, flat, editingDue, storage, addingSubtaskFor>>

Next ==
    \/ Tick
    \/ HandleAddTask
    \/ HandleToggleComplete
    \/ HandleDelete
    \/ HandleCommitEdit
    \/ CommitDueEdit

Spec == Init /\ [][Next]_vars

----------------------------------------------------------------------------
(* The application with the subtask input: the "+" of a row opens the input
   of that row's task, the input commits on Enter or on blur with a title and
   closes on Escape or on blur without one, and the rows are those of live
   tasks. *)

(* mutant: the rows of soft-deleted tasks are rendered too *)
subtaskInputShownForDeleted(id, ts) ==
    \E i \in 1..Len(ts) : ts[i].id = id

(* TaskList: addingSubtaskFor === task.id for the task of a rendered row; the
   rows are the nodes of visibleTasks, which holds no soft-deleted task *)
subtaskInputShown(id, ts) ==
    \E i \in 1..Len(ts) : ts[i].id = id /\ ts[i].deletedAt = Null

(* onClick of "+": onSetAddingSubtaskFor(task.id) *)
SetAddingSubtaskFor ==
    \E id \in LiveIds :
        /\ addingSubtaskFor' = id
        /\ last' = [op |-> "openSubtask", id |-> id]
        /\ UNCHANGED <<tasks, now, tz, tree, flat, editingDue, storage>>

(* Escape, or blur with a blank title: onSetAddingSubtaskFor(null) *)
CancelSubtask ==
    /\ subtaskInputShown(addingSubtaskFor, tasks)
    /\ addingSubtaskFor' = NullId
    /\ last' = [op |-> "cancelSubtask", id |-> addingSubtaskFor]
    /\ UNCHANGED <<tasks, now, tz, tree, flat, editingDue, storage>>

(* Enter, or blur with a title: onAddSubtask(task.id), that is
   handleAddTask(parentId) with the id of the row's task *)
AddSubtask ==
    \E input \in InputTitles, newDueDate \in InputDays :
        LET title == trim(input)
        IN /\ subtaskInputShown(addingSubtaskFor, tasks)
           /\ Len(tasks) < MaxTasks
           /\ title # <<>>
           /\ ~createTaskThrows(title)
           /\ tasks' = addTask(tasks, title, newDueDate, addingSubtaskFor, now, tz)
           /\ last' = [op |-> "add", id |-> Len(tasks) + 1]
           /\ addingSubtaskFor' = NullId
           /\ UNCHANGED <<now, tz, tree, flat, editingDue, storage>>

(* handleAddTask() of the form at the top: a top-level task *)
AddTopLevelTask ==
    \E input \in InputTitles, newDueDate \in InputDays :
        LET title == trim(input)
        IN /\ Len(tasks) < MaxTasks
           /\ title # <<>>
           /\ ~createTaskThrows(title)
           /\ tasks' = addTask(tasks, title, newDueDate, NullId, now, tz)
           /\ last' = [op |-> "add", id |-> Len(tasks) + 1]
           /\ UNCHANGED <<now, tz, tree, flat, editingDue, storage, addingSubtaskFor>>

NextSubtask ==
    \/ SetAddingSubtaskFor
    \/ CancelSubtask
    \/ AddSubtask
    \/ AddTopLevelTask
    \/ HandleToggleComplete
    \/ HandleDelete
    \/ HandleCommitEdit
    \/ CommitDueEdit

SpecSubtask == Init /\ [][NextSubtask]_vars

----------------------------------------------------------------------------
(* The tree builder on arbitrary collections: any collection loadTasks can
   return with pairwise distinct ids.  The task at position i has id i (the
   code reads an id only to compare it with another); its parentId is null,
   any task's id (its own included) or an id no task has. *)

Epoch == toISOString(0)

TreeTask(id, parentId, createdAt, deletedAt) ==
    [id |-> id, title |-> <<"a">>, completed |-> FALSE, dueAt |-> Null,
     parentId |-> parentId, tags |-> <<>>, createdAt |-> createdAt,
     updatedAt |-> createdAt, deletedAt |-> deletedAt,
     version |-> TASK_STORAGE_VERSION]

InitTree ==
    \E n \in 0..MaxNodes :
        \E p \in [1..n -> 0..(n + 1)], c \in [1..n -> 0..1], d \in [1..n -> BOOLEAN] :
            /\ tasks = [i \in 1..n |->
                            TreeTask(i, p[i], toISOString(c[i]),
                                     IF d[i] THEN toISOString(1) ELSE Null)]
            /\ now = TicksPerDay
            /\ tz = 0
            /\ last = NoOp
            /\ tree = Null
            /\ flat = Null
            /\ editingDue = Null
            /\ storage = NoStorage
            /\ addingSubtaskFor = NullId

(* const forest = buildTaskTree(tasks) *)
BuildTree ==
    /\ tree = Null
    /\ tree' = <<buildTaskTree(tasks)>>
    /\ UNCHANGED <<tasks, now, tz, last, flat, editingDue, storage, addingSubtaskFor>>

(* flattenTaskTree(forest) *)
Flatten ==
    /\ tree # Null
    /\ flat = Null
    /\ flat' = <<flattenTaskTree(tree[1])>>
    /\ UNCHANGED <<tasks, now, tz, last, tree, editingDue, storage, addingSubtaskFor>>

NextTree == BuildTree \/ Flatten

SpecTree == InitTree /\ [][NextTree]_vars

----------------------------------------------------------------------------
(* The views on collections as the application builds them: the newest task
   first, every parentId null or the id of a task created earlier, any of the
   tasks soft-deleted, any of them with a due date. *)

DueInputs == {Null, <<1>>, <<2>>}       \* what the date inputs held

ViewTask(id, parentId, dueAt, deletedAt) ==
    [id |-> id, title |-> <<"a">>, completed |-> FALSE, dueAt |-> dueAt,
     parentId |-> parentId, tags |-> <<>>, createdAt |-> Epoch,
     updatedAt |-> Epoch, deletedAt |-> deletedAt,
     version |-> TASK_STORAGE_VERSION]

InitDue ==
    \E n \in 1..MaxNodes :
        \E p \in [1..n -> 0..(n - 1)], u \in [1..n -> DueInputs], d \in [1..n -> BOOLEAN] :
            /\ \A i \in 1..n : p[i] < i
            /\ tz = 0
            /\ now = TicksPerDay
            /\ tasks = [k \in 1..n |->
                  LET i == n + 1 - k
                  IN ViewTask(i, p[i],
                         IF u[i] # Null
                         THEN toISOString(parseLocalDate(u[i][1], tz)) ELSE Null,
                         IF d[i] THEN toISOString(now) ELSE Null)]
            /\ last = NoOp
            /\ tree = Null
            /\ flat = Null
            /\ editingDue = Null
            /\ storage = NoStorage
            /\ addingSubtaskFor = NullId

(* setView(view): visibleTasks is computed for the view, with no search text *)
ShowView ==
    \E view \in Views :
        /\ tree = Null
        /\ editingDue = Null
        /\ tree' = <<visibleTasks(tasks, view, <<>>, now, tz)>>
        /\ last' = [op |-> view, id |-> NullId]
        /\ UNCHANGED <<tasks, now, tz, flat, editingDue, storage, addingSubtaskFor>>

(* openDueEditor(task), of a task shown in the list: the editor opens with
   the date part of the task's own or inherited due date *)
OpenDueEditor ==
    \E id \in LiveIds :
        LET task == findLive(id, tasks)
            effective == IF task.dueAt # Null THEN task.dueAt
                         ELSE getEffectiveDueDate(task, tasks)
        IN /\ tree = Null
           /\ editingDue = Null
           /\ ~getAncestorIdsHangs(id, tasks)
           /\ editingDue' = <<id, IF effective # Null THEN <<effective[1]>> ELSE Null>>
           /\ last' = [op |-> "openDue", id |-> id]
           /\ UNCHANGED <<tasks, now, tz, tree, flat, storage, addingSubtaskFor>>

NextDue == ShowView \/ OpenDueEditor

SpecDue == InitDue /\ [][NextDue]_vars

----------------------------------------------------------------------------
(* The view predicate on one task, for every due instant, reading of the
   clock and zone *)

LastInstant == (UpcomingDays + 3) * TicksPerDay

InitDate ==
    \E due \in 0..LastInstant, n0 \in TicksPerDay..(TicksPerDay + MaxNow),
       z \in ZoneOffsets, c \in BOOLEAN :
        /\ tasks = <<[ViewTask(1, NullId, toISOString(due), Null)
                        EXCEPT !.completed = c]>>
        /\ now = n0
        /\ tz = z
        /\ last = NoOp
        /\ tree = Null
        /\ flat = Null
        /\ editingDue = Null
        /\ storage = NoStorage
        /\ addingSubtaskFor = NullId

NextDate == ShowView

SpecDate == InitDate /\ [][NextDate]_vars

----------------------------------------------------------------------------
(* createTask and updateTitle on arbitrary title texts: a caller creates
   tasks, catching the error of createTask as handleAddTask does, and renames
   them *)

Chars == {"a", "#", " "}

Strings(n) == UNION {[1..k -> Chars] : k \in 0..n}

TitleInputs == Strings(MaxTitleLen)

(* try { task = createTask(title); setTasks(prev => [task, ...prev]) }
   catch { } *)
CreateTaskOf(title) ==
    /\ Len(tasks) < MaxTitled
    /\ IF createTaskThrows(title)
       THEN /\ tasks' = tasks
            /\ last' = [op |-> "createThrew", id |-> NullId]
       ELSE /\ tasks' = <<createTask(title, Null, NullId, now, Len(tasks) + 1)>> \o tasks
            /\ last' = [op |-> "create", id |-> Len(tasks) + 1]
    /\ UNCHANGED <<now, tz, tree, flat, editingDue, storage, addingSubtaskFor>>

CreateTask == \E title \in TitleInputs : CreateTaskOf(title)

(* setTasks(prev => prev.map(t => t.id === id ? updateTitle(t, title) : t)) *)
UpdateTitleOf(id, title) ==
    /\ tasks' = commitEditIn(tasks, id, title, now)
    /\ last' = [op |-> "updateTitle", id |-> id]
    /\ UNCHANGED <<now, tz, tree, flat, editingDue, storage, addingSubtaskFor>>

UpdateTitle == \E id \in LiveIds, title \in TitleInputs : UpdateTitleOf(id, title)

NextTitle == CreateTask \/ UpdateTitle

(* The user completes the leaves of a subtree, one by one in any order, and
   then does the same once more. The collection is as the application builds
   it (newest task first, parents created before their children), with any
   tasks completed or soft-deleted, the leaves of the subtree not completed. *)

subtreeIds(root, ts) == {root} \cup getAllDescendantIds(root, ts)

leafIds(root, ts) == {id \in subtreeIds(root, ts) : getAllDescendantIds(id, ts) = {}}

InitComplete ==
    \E n \in 1..MaxNodes :
        \E p \in [1..n -> 0..(n - 1)], c \in [1..n -> BOOLEAN], d \in [1..n -> BOOLEAN] :
            \E root \in 1..n :
                /\ \A i \in 1..n : p[i] < i
                /\ ~d[root]
                /\ tz = 0
                /\ now = TicksPerDay
                /\ tasks = [k \in 1..n |->
                      LET i == n + 1 - k
                      IN [ViewTask(i, p[i], Null, IF d[i] THEN Epoch ELSE Null)
                            EXCEPT !.completed = c[i]]]
                /\ \A i \in 1..n :
                      tasks[i].id \in leafIds(root, tasks) => ~tasks[i].completed
                /\ last = [op |-> "none", id |-> NullId, root |-> root, round |-> 1,
                           done |-> {}, once |-> Null]
                /\ tree = Null
                /\ flat = Null
                /\ editingDue = Null
                /\ storage = NoStorage
                /\ addingSubtaskFor = NullId

(* handleToggleComplete(id) on a leaf of the subtree not yet clicked in this
   round; last.once keeps the collection as it was after the first round *)
CompleteLeaf ==
    \E id \in leafIds(last.root, tasks) \ last.done :
        LET done == last.done \cup {id}
            all == done = leafIds(last.root, tasks)
        IN /\ last.round \in {1, 2}
           /\ tasks' = toggleCompleteIn(tasks, id, now)
           /\ last' = [op |-> "toggle", id |-> id, root |-> last.root,
                       round |-> IF all THEN last.round + 1 ELSE last.round,
                       done |-> IF all THEN {} ELSE done,
                       once |-> IF all /\ last.round = 1 THEN <<tasks'>> ELSE last.once]
           /\ UNCHANGED <<now, tz, tree, flat, editingDue, storage, addingSubtaskFor>>

NextComplete == CompleteLeaf

SpecComplete == InitComplete /\ [][NextComplete]_vars

(* Start-up of Home on any environment: the load effect calls loadTasks and
   schedules setTasks(initial); the persist effect of the same commit saves
   the collection of the first render; the next render has the loaded
   collection, and the persist effect saves it. *)

WithoutParentId(t) == [f \in DOMAIN t \ {"parentId"} |-> t[f]]

(* the collections a stored snapshot can hold: tasks written by this version
   and tasks written before parentId existed *)
StoredCollections ==
    UNION {{[i \in 1..n |->
                IF h[i] THEN ViewTask(i, p[i], Null, Null)
                ELSE WithoutParentId(ViewTask(i, NullId, Null, Null))] :
              p \in [1..n -> 0..n], h \in [1..n -> BOOLEAN]} : n \in 0..MaxStored}

StoredValues ==
    {JNull, JNumber, JObject(TASK_STORAGE_VERSION, JNull),
     JObject(TASK_STORAGE_VERSION, JUndefined)}
    \cup {JArray(ts) : ts \in StoredCollections}
    \cup {JObject(TASK_STORAGE_VERSION, JArray(ts)) : ts \in StoredCollections}

StoredItems == {Null, EmptyText, Garbage} \cup {JSONstringify(v) : v \in StoredValues}

InitStorage ==
    \E browser \in BOOLEAN, getFails \in BOOLEAN, setFails \in BOOLEAN,
       item \in StoredItems :
        /\ storage = [browser |-> browser, getFails |-> getFails,
                      setFails |-> setFails, item |-> item]
        /\ addingSubtaskFor = NullId
        /\ tasks = <<>>
        /\ now = TicksPerDay
        /\ tz = 0
        /\ last = NoOp
        /\ tree = Null
        /\ flat = Null
        /\ editingDue = Null

(* useEffect(() => { const initial = loadTasks(); setTasks(initial); }, []),
   with either definition of loadTasks *)
LoadEffect ==
    \E def \in {1, 2} :
        LET r == IF def = 1 THEN loadTasks(storage) ELSE loadTasks_2(storage)
        IN /\ last = NoOp
           /\ last' = [op |-> "load", id |-> NullId, def |-> def, threw |-> r.threw,
                       initial |-> r.value, item |-> storage.item]
           /\ UNCHANGED <<tasks, now, tz, tree, flat, editingDue, storage, addingSubtaskFor>>

(* useEffect(() => { saveTasks(tasks) }, [tasks]): after the first render and
   after the render that has the loaded collection *)
PersistEffect ==
    LET r == saveTasks(tasks, storage)
    IN /\ last.op \in {"load", "render"}
       /\ ~last.threw
       /\ storage' = r.storage
       /\ last' = [last EXCEPT !.op = IF last.op = "load" THEN "saveFirst" ELSE "save",
                               !.threw = r.threw]
       /\ UNCHANGED <<tasks, now, tz, tree, flat, editingDue, addingSubtaskFor>>

(* the render after setTasks(initial) *)
Render ==
    /\ last.op = "saveFirst"
    /\ ~last.threw
    /\ tasks' = last.initial
    /\ last' = [last EXCEPT !.op = "render"]
    /\ UNCHANGED <<now, tz, tree, flat, editingDue, storage, addingSubtaskFor>>

NextStorage == LoadEffect \/ PersistEffect \/ Render

SpecStorage == InitStorage /\ [][NextStorage]_vars

(* The application with its persist effect, from the empty collection and an
   empty storage that works or rejects every write.  An action that replaces
   the collection causes a render, and the effect of that render runs before
   the next event is handled. *)

UserOps == {"add", "toggle", "delete", "rename", "due"}

(* the render of the last action has not run its effect yet *)
EffectPending == last.op \in UserOps

InitPersist ==
    \E setFails \in BOOLEAN :
        /\ storage = [NoStorage EXCEPT !.setFails = setFails]
        /\ addingSubtaskFor = NullId
        /\ tasks = <<>>
        /\ now = TicksPerDay
        /\ tz = 0
        /\ last = NoOp
        /\ tree = Null
        /\ flat = Null
        /\ editingDue = Null

UserAction ==
    /\ ~EffectPending
    /\ \/ HandleAddTask
       \/ HandleToggleComplete
       \/ HandleDelete
       \/ HandleCommitEdit
       \/ CommitDueEdit

(* useEffect(() => { saveTasks(tasks) }, [tasks]) after the render of an
   action's collection *)
PersistAfterAction ==
    /\ EffectPending
    /\ storage' = saveTasks(tasks, storage).storage
    /\ last' = [op |-> "persist", id |-> last.id]
    /\ UNCHANGED <<tasks, now, tz, tree, flat, editingDue, addingSubtaskFor>>

NextPersist == UserAction \/ PersistAfterAction

SpecPersist == InitPersist /\ [][NextPersist]_vars /\ WF_vars(PersistAfterAction)

(* The list views with the search on collections as the application builds
   them: the newest task first, every parentId null or the id of a task
   created earlier, any title, any of the tasks completed, soft-deleted or
   due today. *)

ListViews == Views \ {"calendar"}

ListTitles == {<<"a">>, <<"T">>}

Queries == {<<>>, <<"t">>}              \* what the search input holds

InitList ==
    \E n \in 1..MaxNodes :
        \E p \in [1..n -> 0..(n - 1)], ti \in [1..n -> ListTitles],
           u \in [1..n -> BOOLEAN], c \in [1..n -> BOOLEAN], d \in [1..n -> BOOLEAN] :
            /\ \A i \in 1..n : p[i] < i
            /\ tz = 0
            /\ now = TicksPerDay
            /\ tasks = [k \in 1..n |->
                  LET i == n + 1 - k
                  IN [ViewTask(i, p[i],
                          IF u[i] THEN toISOString(now) ELSE Null,
                          IF d[i] THEN toISOString(now) ELSE Null)
                        EXCEPT !.title = ti[i], !.completed = c[i]]]
            /\ last = NoOp
            /\ tree = Null
            /\ flat = Null
            /\ editingDue = Null
            /\ storage = NoStorage
            /\ addingSubtaskFor = NullId

(* the render of a list view with a search text: visibleTasks *)
ShowList ==
    \E view \in ListViews, query \in Queries :
        /\ tree = Null
        /\ tree' = <<visibleTasksV1(tasks, view, query, now, tz)>>
        /\ last' = [op |-> "list", id |-> NullId, view |-> view, query |-> query]
        /\ UNCHANGED <<tasks, now, tz, flat, editingDue, storage, addingSubtaskFor>>

NextList == ShowList

SpecList == InitList /\ [][NextList]_vars

(* The calendar on collections as the application builds them, in any zone:
   every due date was set from a date input and is the local midnight of a
   day. *)

InitCalendar ==
    \E n \in 1..MaxNodes, z \in ZoneOffsets, n0 \in TicksPerDay..(TicksPerDay + MaxNow) :
        \E p \in [1..n -> 0..(n - 1)], u \in [1..n -> DueInputs], d \in [1..n -> BOOLEAN] :
            /\ \A i \in 1..n : p[i] < i
            /\ tz = z
            /\ now = n0
            /\ tasks = [k \in 1..n |->
                  LET i == n + 1 - k
                  IN ViewTask(i, p[i],
                         IF u[i] # Null
                         THEN toISOString(parseLocalDate(u[i][1], tz)) ELSE Null,
                         IF d[i] THEN toISOString(now) ELSE Null)]
            /\ last = NoOp
            /\ tree = Null
            /\ flat = Null
            /\ editingDue = Null
            /\ storage = NoStorage
            /\ addingSubtaskFor = NullId

(* the render of the calendar view: tasksByDate with no search text; tree
   holds the Map *)
ShowCalendar ==
    /\ tree = Null
    /\ tree' = <<tasksByDate(tasks, <<>>)>>
    /\ last' = [op |-> "calendar", id |-> NullId]
    /\ UNCHANGED <<tasks, now, tz, flat, editingDue, storage, addingSubtaskFor>>

NextCalendar == ShowCalendar

SpecCalendar == InitCalendar /\ [][NextCalendar]_vars

(* The tree builder on two orders of one collection: tasks with pairwise
   distinct createdAt, any parentId, any of them soft-deleted, and the same
   tasks in another order. *)

Orders(n) == {f \in [1..n -> 1..n] : \A i, j \in 1..n : f[i] = f[j] => i = j}

InitPermute ==
    \E n \in 1..MaxNodes :
        \E p \in [1..n -> 0..(n + 1)], c \in Orders(n), d \in [1..n -> BOOLEAN] :
            /\ tasks = [i \in 1..n |->
                            TreeTask(i, p[i], toISOString(c[i]),
                                     IF d[i] THEN toISOString(n + 1) ELSE Null)]
            /\ now = TicksPerDay
            /\ tz = 0
            /\ last = NoOp
            /\ tree = Null
            /\ flat = Null
            /\ editingDue = Null
            /\ storage = NoStorage
            /\ addingSubtaskFor = NullId

(* buildTaskTree(tasks) and buildTaskTree of the same tasks in the order
   perm; tree holds the first forest and flat the second *)
BuildPermuted ==
    \E perm \in Orders(Len(tasks)) :
        /\ tree = Null
        /\ tree' = <<buildTaskTree(tasks)>>
        /\ flat' = <<buildTaskTree([i \in 1..Len(tasks) |-> tasks[perm[i]]])>>
        /\ last' = [op |-> "permute", id |-> NullId, perm |-> perm]
        /\ UNCHANGED <<tasks, now, tz, editingDue, storage, addingSubtaskFor>>

NextPermute == BuildPermuted

SpecPermute == InitPermute /\ [][NextPermute]_vars

(* The traversals and the tree builder on arbitrary collections (those of
   InitTree); a traversal is called with the id of any task of the collection
   or an id no task has. *)

GetAllDescendantIds ==
    \E taskId \in 1..(Len(tasks) + 1) :
        /\ last = NoOp
        /\ last' = [op |-> "descendants", id |-> taskId,
                    ids |-> getAllDescendantIds(taskId, tasks),
                    returns |-> ~getAllDescendantIdsOverflows(taskId, tasks)]
        /\ UNCHANGED <<tasks, now, tz, tree, flat, editingDue, storage, addingSubtaskFor>>

GetAncestorIds ==
    \E taskId \in 1..(Len(tasks) + 1) :
        /\ last = NoOp
        /\ last' = [op |-> "ancestors", id |-> taskId,
                    ids |-> getAncestorIds(taskId, tasks),
                    returns |-> ~getAncestorIdsHangs(taskId, tasks)]
        /\ UNCHANGED <<tasks, now, tz, tree, flat, editingDue, storage, addingSubtaskFor>>

NextTraverse == GetAllDescendantIds \/ GetAncestorIds \/ BuildTree

SpecTraverse == InitTree /\ [][NextTraverse]_vars

(* extractTags applied to a text *)
TagInputs == Strings(MaxLen)

ExtractTags ==
    \E raw \in TagInputs :
        /\ last = NoOp
        /\ last' = [op |-> "extractTags", id |-> NullId, raw |-> raw,
                    result |-> extractTags(raw)]
        /\ UNCHANGED <<tasks, now, tz, tree, flat, editingDue, storage, addingSubtaskFor>>

NextTags == ExtractTags

SpecTags == Init /\ [][NextTags]_vars

SpecTitle == Init /\ [][NextTitle]_vars

----------------------------------------------------------------------------
(* Vocabulary of the properties: the hierarchy read off the parentId links,
   independently of the traversals above *)

LiveTasks(ts) == {ts[i] : i \in {j \in 1..Len(ts) : ts[j].deletedAt = Null}}

DeletedTasks(ts) == {ts[i] : i \in {j \in 1..Len(ts) : ts[j].deletedAt # Null}}

(* the live tasks a live task names as its parent *)
LiveParents(t, ts) == {q \in LiveTasks(ts) : t.parentId # NullId /\ q.id = t.parentId}

(* a live task with a parentId that no live task has *)
IsDangling(t, ts) == t.parentId # NullId /\ LiveParents(t, ts) = {}

(* the live tasks reached from the tasks of S by following parentId upwards
   through live tasks, in at most n steps *)
RECURSIVE Upwards(_, _, _)
Upwards(S, ts, n) ==
    IF n = 0 THEN {}
    ELSE LET P == UNION {LiveParents(t, ts) : t \in S}
         IN P \cup Upwards(P, ts, n - 1)

LiveAncestors(t, ts) == Upwards({t}, ts, Len(ts))

(* the live tasks that have a of LiveTasks among their ancestors *)
LiveDescendants(a, ts) == {t \in LiveTasks(ts) : a \in LiveAncestors(t, ts)}

(* no live task is its own ancestor *)
LinksAcyclic(ts) == \A t \in LiveTasks(ts) : t \notin LiveAncestors(t, ts)

(* the sibling lists of a forest: the forest itself and the children of
   every node in it *)
RECURSIVE SiblingLists(_)
SiblingLists(nodes) ==
    {nodes} \cup UNION {SiblingLists(nodes[i].children) : i \in 1..Len(nodes)}

(* the position of a task in the collection *)
IndexOf(t, ts) == CHOOSE i \in 1..Len(ts) : ts[i] = t

----------------------------------------------------------------------------
(* C1: when a toggle turns a live task's completed flag from false to true,
   every live ancestor of the task all of whose live descendants are completed
   in the resulting collection is completed in it, also when it qualifies only
   because a nearer ancestor was completed by the same toggle. *)
C1_CascadingCompletion ==
    last.op = "toggle" =>
        LET x == findById(last.id, tasks)
        IN x.completed =>
              \A a \in LiveAncestors(x, tasks) :
                  (\A d \in LiveDescendants(a, tasks) : d.completed) => a.completed

(* the last action completed a task whose parent and grandparent were
   completed by the same toggle *)
C1_Witness ==
    /\ last.op = "toggle"
    /\ LET x == findById(last.id, tasks)
       IN /\ x.completed
          /\ \E p \in LiveParents(x, tasks) :
                /\ p.completed /\ p.updatedAt = x.updatedAt
                /\ newDate(p.createdAt) < newDate(p.updatedAt)
                /\ \E g \in LiveParents(p, tasks) :
                      /\ g.completed /\ g.updatedAt = x.updatedAt
                      /\ newDate(g.createdAt) < newDate(g.updatedAt)

(* C2: a confirmed delete of a live task T leaves T and every task that was a
   live descendant of T soft-deleted, in the one step that replaces the
   collection, and getAllDescendantIds(T) is empty over the result. *)
C2_CascadingDelete ==
    [][(last'.op = "delete" /\ tasks' # tasks) =>
          LET T == findById(last'.id, tasks)
          IN /\ IsLive(T)
             /\ \A t \in {T} \cup LiveDescendants(T, tasks) :
                   findById(t.id, tasks').deletedAt # Null
             /\ getAllDescendantIds(T.id, tasks') = {}
             /\ ~getAllDescendantIdsOverflows(T.id, tasks')]_vars

(* the last action deleted a task together with a child and a grandchild *)
C2_Witness ==
    /\ last.op = "delete"
    /\ LET T == findById(last.id, tasks)
       IN /\ T.deletedAt # Null
          /\ \E c, g \in DeletedTasks(tasks) :
                /\ c.parentId = T.id /\ g.parentId = c.id
                /\ c.deletedAt = T.deletedAt /\ g.deletedAt = T.deletedAt

(* C7: no action of the user removes a task from the collection, and a
   deletedAt that is set is never null again. *)
C7_NeverHardDeleted ==
    [][\A i \in 1..Len(tasks) :
          \E j \in 1..Len(tasks') :
              /\ tasks'[j].id = tasks[i].id
              /\ tasks[i].deletedAt # Null => tasks'[j].deletedAt # Null]_vars

(* a soft-deleted task is still in the collection after a later add, toggle,
   rename or change of due date *)
C7_Witness ==
    /\ last.op \in {"add", "toggle", "rename", "due"}
    /\ \E t \in DeletedTasks(tasks) :
          newDate(t.deletedAt) < newDate(findById(last.id, tasks).updatedAt)

----------------------------------------------------------------------------
(* C3 as stated: for all task collections, flattenTaskTree(buildTaskTree(tasks))
   contains exactly the live tasks, each exactly once, and every node's depth
   is the number of its task's ancestors, that is the depth of its parent's
   node plus one when there is such a node and 0 otherwise. *)
TreeRoundTripOf(ts, nodes) ==
    /\ \A t \in LiveTasks(ts) :
          Cardinality({k \in 1..Len(nodes) : nodes[k].task = t}) = 1
    /\ \A k \in 1..Len(nodes) :
          /\ nodes[k].task \in LiveTasks(ts)
          /\ nodes[k].depth = Cardinality(LiveAncestors(nodes[k].task, ts))
          /\ LET P == {j \in 1..Len(nodes) :
                          nodes[j].task \in LiveParents(nodes[k].task, ts)}
             IN IF P = {} THEN nodes[k].depth = 0
                ELSE \A j \in P : nodes[k].depth = nodes[j].depth + 1

C3_TreeRoundTrip_AllCollections ==
    flat # Null => TreeRoundTripOf(tasks, flat[1])

(* C3 on the collections whose parentId links are acyclic: the round trip
   holds on every one of them. *)
C3_TreeRoundTrip ==
    (flat # Null /\ LinksAcyclic(tasks)) => TreeRoundTripOf(tasks, flat[1])

(* a flattened forest built from a collection that holds a soft-deleted task
   and a live task that precedes its live parent *)
C3_Witness ==
    /\ flat # Null
    /\ LinksAcyclic(tasks)
    /\ DeletedTasks(tasks) # {}
    /\ \E k \in 1..Len(flat[1]) :
          /\ flat[1][k].depth = 1
          /\ \E q \in LiveParents(flat[1][k].task, tasks) :
                IndexOf(flat[1][k].task, tasks) < IndexOf(q, tasks)

(* C4: in the result of buildTaskTree every sibling list, the roots included,
   is ordered by createdAt ascending, and siblings with equal createdAt keep
   the order they have in the input collection. *)
C4_SiblingsSorted ==
    tree # Null =>
        \A L \in SiblingLists(tree[1]) :
            \A i, j \in 1..Len(L) :
                i < j =>
                    /\ newDate(L[i].task.createdAt) <= newDate(L[j].task.createdAt)
                    /\ L[i].task.createdAt = L[j].task.createdAt
                          => IndexOf(L[i].task, tasks) < IndexOf(L[j].task, tasks)

(* a forest with two siblings that the sort had to swap and two siblings of
   equal createdAt *)
C4_Witness ==
    /\ tree # Null
    /\ \E L \in SiblingLists(tree[1]) :
          \E i, j \in 1..Len(L) :
              i < j /\ IndexOf(L[i].task, tasks) > IndexOf(L[j].task, tasks)
    /\ \E L \in SiblingLists(tree[1]) :
          \E i, j \in 1..Len(L) :
              i < j /\ L[i].task.createdAt = L[j].task.createdAt

(* C5: a live task whose parentId names a task that is missing or soft-deleted
   is a root of buildTaskTree's result, with depth 0, and getAncestorIds
   returns the empty list for it. *)
C5_DanglingParentIsRoot ==
    tree # Null =>
        \A t \in LiveTasks(tasks) :
            IsDangling(t, tasks) =>
                /\ \E i \in 1..Len(tree[1]) :
                      tree[1][i].task = t /\ tree[1][i].depth = 0
                /\ ~getAncestorIdsHangs(t.id, tasks)
                /\ getAncestorIds(t.id, tasks) = <<>>

(* a forest built from a collection with a live child of a missing task and
   a live child of a soft-deleted task *)
C5_Witness ==
    /\ tree # Null
    /\ \E t \in LiveTasks(tasks) :
          t.parentId # NullId /\ \A q \in Range(tasks) : q.id # t.parentId
    /\ \E t \in LiveTasks(tasks) :
          \E q \in DeletedTasks(tasks) : q.id = t.parentId

(* C6: a soft-deleted task is visible in none of the five views, is no node
   of buildTaskTree's result, and its id is returned neither by
   getAllDescendantIds nor by getAncestorIds, whatever the starting task. *)
C6_DeletedExcluded ==
    \A t \in DeletedTasks(tasks) :
        /\ \A view \in Views : ~isVisibleInView(t, view, now, tz)
        /\ flat # Null => \A k \in 1..Len(flat[1]) : flat[1][k].task.id # t.id
        /\ \A s \in Range(tasks) :
              /\ t.id \notin getAllDescendantIds(s.id, tasks)
              /\ t.id \notin Range(getAncestorIds(s.id, tasks))

(* a flattened forest built from a collection in which a soft-deleted task
   has a live parent and a live child *)
C6_Witness ==
    /\ flat # Null
    /\ \E t \in DeletedTasks(tasks) :
          /\ \E q \in LiveTasks(tasks) : q.id = t.parentId
          /\ \E c \in LiveTasks(tasks) : c.parentId = t.id

(* the tasks of the nodes of a forest *)
ShownTasks(forest) ==
    LET nodes == flattenTaskTree(forest)
    IN {nodes[k].task : k \in 1..Len(nodes)}

C9_EffectiveDueDate ==
    \A t \in LiveTasks(tasks) :
        LET e == getEffectiveDueDate(t, tasks)
            D == {a \in LiveAncestors(t, tasks) : a.dueAt # Null}
        IN IF t.dueAt # Null THEN e = t.dueAt
           ELSE IF D = {} THEN e = Null
           ELSE \E a \in D :
                   /\ e = a.dueAt
                   /\ \A b \in D \ {a} : b \in LiveAncestors(a, tasks)

(* the due editor was opened on a task without a due date whose parent has
   none and whose grandparent has one: it holds the grandparent's date *)
C9_Witness ==
    /\ editingDue # Null
    /\ LET t == findLive(editingDue[1], tasks)
       IN /\ t.dueAt = Null
          /\ \E q \in LiveParents(t, tasks) :
                /\ q.dueAt = Null
                /\ \E g \in LiveParents(q, tasks) :
                      g.dueAt # Null /\ editingDue[2] = <<g.dueAt[1]>>

(* C10: for every now, a task with a due date is not visible in both the
   today view and the upcoming view. *)
C10_TodayUpcomingDisjoint ==
    \A i \in 1..Len(tasks) :
        tasks[i].dueAt # Null =>
            ~(/\ isVisibleInView(tasks[i], "today", now, tz)
              /\ isVisibleInView(tasks[i], "upcoming", now, tz))

(* the upcoming view was built, and is empty, for a task due on the day of
   now, later than that day's local midnight *)
C10_Witness ==
    /\ last.op = "upcoming"
    /\ tree = <<<<>>>>
    /\ Len(tasks) = 1
    /\ tasks[1].dueAt # Null
    /\ isSameDay(newDate(tasks[1].dueAt), now, tz)
    /\ newDate(tasks[1].dueAt) > startOfDay(now, tz)
    /\ isVisibleInView(tasks[1], "today", now, tz)

(* C11: a task is visible in the upcoming view iff its due instant is strictly
   after local midnight of now's day, strictly before local midnight of the
   day 7 days after now, and not on now's local calendar day; a due date on
   now's day is excluded, one 4 days later included, one exactly 7 days later
   excluded. *)
C11_UpcomingWindow ==
    \A i \in 1..Len(tasks) :
        LET t == tasks[i]
            today == localDay(now, tz)
        IN (t.dueAt # Null /\ t.deletedAt = Null) =>
            LET due == newDate(t.dueAt)
                inWindow == /\ due > localMidnight(today, tz)
                            /\ due < localMidnight(today + 7, tz)
                            /\ localDay(due, tz) # today
                upcoming == isVisibleInView(t, "upcoming", now, tz)
            IN /\ upcoming <=> inWindow
               /\ localDay(due, tz) = today => ~upcoming
               /\ localDay(due, tz) = today + 4 => upcoming
               /\ due = now + 4 * TicksPerDay => upcoming
               /\ due = localMidnight(today + 7, tz) => ~upcoming
               /\ due = now + 7 * TicksPerDay => ~upcoming
               /\ (tree # Null /\ last.op = "upcoming")
                      => (t \in ShownTasks(tree[1]) <=> inWindow)

(* the upcoming view was built, and is empty, for a task due exactly at local
   midnight of the day 7 days after now *)
C11_Witness ==
    /\ last.op = "upcoming"
    /\ tree = <<<<>>>>
    /\ Len(tasks) = 1
    /\ tasks[1].dueAt # Null
    /\ newDate(tasks[1].dueAt) = localMidnight(localDay(now, tz) + 7, tz)

(* the title is empty once trimmed and stripped of its tag tokens *)
StrippedEmpty(title) == extractTags(trim(title)).cleanTitle = <<>>

(* the claim C12 as stated: creating a task fails, and leaves the collection
   unchanged, whenever the title is empty after trimming and removing its
   #tag tokens *)
C12_CreateFailsOnStrippedEmpty ==
    [][\A title \in TitleInputs :
          (CreateTaskOf(title) /\ StrippedEmpty(title))
              => (createTaskThrows(title) /\ tasks' = tasks)]_vars

(* C12, amended: creating a task fails with an error exactly when the title
   is empty after trimming, and then no task is created and the collection is
   unchanged; every other title, a title made only of tag tokens included,
   creates one task, whose title is the tag-stripped title or, when that is
   empty, the trimmed title. *)
C12_CreateFailsOnBlank ==
    [][\A title \in TitleInputs :
          CreateTaskOf(title) =>
              IF trim(title) = <<>>
              THEN createTaskThrows(title) /\ tasks' = tasks
              ELSE /\ ~createTaskThrows(title)
                   /\ Len(tasks') = Len(tasks) + 1
                   /\ Tail(tasks') = tasks
                   /\ tasks'[1].title =
                          IF StrippedEmpty(title) THEN trim(title)
                          ELSE extractTags(trim(title)).cleanTitle]_vars

(* createTask threw, and the collection holds a task made from a title of tag
   tokens only *)
C12_Witness ==
    /\ last.op = "createThrew"
    /\ \E i \in 1..Len(tasks) : tasks[i].title = <<"#", "a">> /\ tasks[i].tags = <<<<"a">>>>

(* the claim C13 as stated: updateTitle returns the task unchanged whenever
   the new title is empty after trimming and removing its #tag tokens *)
C13_UpdateTitleNoOpOnStrippedEmpty ==
    \A i \in 1..Len(tasks) : \A title \in TitleInputs :
        StrippedEmpty(title) => updateTitle(tasks[i], title, now + 1) = tasks[i]

(* C13, amended: updateTitle returns the task unchanged (same title, tags and
   updatedAt, and no error) exactly when the new title is empty after
   trimming; a new title made only of tag tokens sets the title to the trimmed
   text, the tags to its tokens and updatedAt to now. *)
C13_UpdateTitleNoOpOnBlank ==
    \A i \in 1..Len(tasks) : \A title \in TitleInputs :
        LET t == tasks[i]
            r == updateTitle(t, title, now + 1)
        IN /\ trim(title) = <<>> => r = t
           /\ trim(title) # <<>> =>
                 /\ r.updatedAt = toISOString(now + 1)
                 /\ r.updatedAt # t.updatedAt
                 /\ r.tags = extractTags(trim(title)).tags
                 /\ r.title = IF StrippedEmpty(title) THEN trim(title)
                              ELSE extractTags(trim(title)).cleanTitle
           /\ (last.op = "updateTitle" /\ last.id = t.id) => t.title # <<>>

(* a task was last renamed with a title of tag tokens only, and now has that
   text as its title and the token as its tag *)
C13_Witness ==
    /\ last.op = "updateTitle"
    /\ \E i \in 1..Len(tasks) :
          /\ tasks[i].id = last.id
          /\ tasks[i].title = <<"#", "a">>
          /\ tasks[i].tags = <<<<"a">>>>

(* C14: in every state reached by add and rename actions with arbitrary
   input strings, every task's title is non-empty. *)
C14_TitleNonEmpty ==
    \A i \in 1..Len(tasks) : tasks[i].title # <<>> /\ trim(tasks[i].title) # <<>>

(* two tasks, one last renamed, with a title that is a lone "#" (which is
   no tag) and a title kept from a text of tag tokens only *)
C14_Witness ==
    /\ Len(tasks) = 2
    /\ last.op = "updateTitle"
    /\ \E i, j \in 1..Len(tasks) :
          /\ tasks[i].title = <<"#">> /\ tasks[i].tags = <<>>
          /\ tasks[j].title = <<"#", "a">> /\ tasks[j].tags # <<>>

(* the elements of a set of numbers in ascending order *)
RECURSIVE Ascending(_)
Ascending(S) ==
    IF S = {} THEN <<>>
    ELSE LET x == CHOOSE y \in S : \A z \in S : y <= z
         IN <<x>> \o Ascending(S \ {x})

(* the tokens of a text: its maximal runs of characters other than
   whitespace, in order of appearance *)
Tokens(str) ==
    LET starts == {i \in 1..Len(str) : str[i] # " " /\ (i = 1 \/ str[i - 1] = " ")}
        tokenAt(i) ==
            LET e == CHOOSE j \in i..Len(str) :
                        /\ \A k \in i..j : str[k] # " "
                        /\ (j = Len(str) \/ str[j + 1] = " ")
            IN SubSeq(str, i, e)
        order == Ascending(starts)
    IN [n \in 1..Len(order) |-> tokenAt(order[n])]

IsTagToken(w) == Len(w) > 1 /\ w[1] = "#"

IsTitleToken(w) == ~IsTagToken(w)

(* C15: extractTags splits the title on whitespace; every token that starts
   with # and is longer than one character is removed from the title and
   appended, without the #, to tags, in order of appearance and with
   duplicates kept; the other tokens, in their order and joined by single
   spaces, form cleanTitle (a lone "#" stays in the title). *)
C15_ExtractTags ==
    last.op = "extractTags" =>
        LET raw == last.raw
            clean == last.result.cleanTitle
            tagTokens == SelectSeq(Tokens(raw), IsTagToken)
        IN /\ last.result.tags = [n \in 1..Len(tagTokens) |-> Tail(tagTokens[n])]
           /\ Tokens(clean) = SelectSeq(Tokens(raw), IsTitleToken)
           /\ clean # <<>> => clean[1] # " " /\ clean[Len(clean)] # " "
           /\ \A i \in 1..(Len(clean) - 1) : ~(clean[i] = " " /\ clean[i + 1] = " ")

(* extractTags was applied to a text with a word, a tag and a lone "#": the
   tag is taken out, the word and the "#" are the clean title *)
C15_Witness ==
    /\ last.op = "extractTags"
    /\ last.result.tags = <<<<"a">>>>
    /\ last.result.cleanTitle = <<"a", " ", "#">>

(* the claim C16 as stated: after all leaves of the subtree were completed a
   second time every task has the completed flag it had after the first
   time *)
C16_CompleteTwiceSameState ==
    last.round = 3 =>
        \A i \in 1..Len(tasks) : tasks[i].completed = last.once[1][i].completed

(* C16, amended: completing all leaves of a subtree twice yields the same
   completed flag as completing them once on every task that is not one of
   those leaves; the leaves, completed after the first time, are toggled back
   to not completed by the second. *)
C16_CompleteTwiceSameAncestors ==
    /\ last.round >= 2 =>
          \A i \in 1..Len(tasks) :
              last.once[1][i].id \in subtreeIds(last.root, tasks)
                  => last.once[1][i].completed
    /\ last.round = 3 =>
          \A i \in 1..Len(tasks) :
              IF tasks[i].id \in leafIds(last.root, tasks)
              THEN last.once[1][i].completed /\ ~tasks[i].completed
              ELSE tasks[i].completed = last.once[1][i].completed

(* both leaves of a subtree were completed twice: its root is completed,
   the leaves are not *)
C16_Witness ==
    /\ last.round = 3
    /\ Cardinality(leafIds(last.root, tasks)) = 2
    /\ last.root \notin leafIds(last.root, tasks)
    /\ \E i \in 1..Len(tasks) : tasks[i].id = last.root /\ tasks[i].completed
    /\ \A i \in 1..Len(tasks) :
          tasks[i].id \in leafIds(last.root, tasks) => ~tasks[i].completed

(* what the stored text was when loadTasks read it *)
NoData(item) == item = Null \/ item = EmptyText

Unparseable(item) == item = Garbage

StoredArray(item) ==
    IF NoData(item) \/ Unparseable(item) THEN Null
    ELSE IF item.value.type = "array" THEN <<item.value.items>>
    ELSE IF item.value.type = "object" /\ item.value.tasks.type = "array"
         THEN <<item.value.tasks.items>>
    ELSE Null

UnrecognizedShape(item) ==
    ~NoData(item) /\ ~Unparseable(item) /\ StoredArray(item) = Null

Unavailable == ~storage.browser \/ storage.getFails

(* C17: storage failures never propagate: loadTasks raises nothing, and
   returns the empty sequence when there is no data, the stored text is
   unparseable or of an unrecognized shape, or the storage is unavailable;
   saveTasks raises nothing when the write fails, and a save leaves the
   in-memory collection as it was. *)
C17_StorageFailuresContained ==
    /\ last.op = "load" =>
          /\ ~last.threw
          /\ (\/ NoData(last.item) \/ Unparseable(last.item)
              \/ UnrecognizedShape(last.item) \/ Unavailable) => last.initial = <<>>
    /\ last.op = "saveFirst" => ~last.threw /\ tasks = <<>>
    /\ last.op = "save" => ~last.threw /\ tasks = last.initial
    /\ (last.op \in {"saveFirst", "save"} /\ (storage.setFails \/ ~storage.browser))
          => storage.item = last.item

(* loadTasks found a text it cannot parse, returned the empty sequence, and
   the save that followed failed *)
C17_Witness ==
    /\ last.op = "saveFirst"
    /\ Unparseable(last.item)
    /\ storage.browser
    /\ storage.setFails
    /\ last.initial = <<>>

(* C18: loadTasks accepts a bare array of tasks and an envelope
   {version, tasks}, and returns the same tasks in the same order from
   either; a task stored without a parentId field is returned with parentId
   null, and every other field of every task is unchanged. *)
C18_LoadNormalizesParentId ==
    (last.op = "load" /\ ~Unavailable /\ StoredArray(last.item) # Null) =>
        LET stored == StoredArray(last.item)[1]
            loaded == last.initial
        IN /\ Len(loaded) = Len(stored)
           /\ \A i \in 1..Len(stored) :
                 /\ "parentId" \in DOMAIN loaded[i]
                 /\ \A f \in DOMAIN stored[i] : loaded[i][f] = stored[i][f]
                 /\ "parentId" \notin DOMAIN stored[i] => loaded[i].parentId = NullId

(* the tasks in the day buckets of a Map of the calendar *)
Bucketed(byDate) ==
    UNION {{byDate[key][i] : i \in 1..Len(byDate[key])} : key \in DOMAIN byDate}

(* C19: only leaf tasks are in the calendar's day buckets: a live task with a
   live child is in no bucket, whatever its due date, and a soft-deleted task
   is in no bucket. *)
C19_CalendarLeavesOnly ==
    (tree # Null /\ last.op = "calendar") =>
        /\ \A t \in Bucketed(tree[1]) :
              /\ t \in LiveTasks(tasks)
              /\ \A c \in LiveTasks(tasks) : t \notin LiveParents(c, tasks)
        /\ \A t \in LiveTasks(tasks) :
              (/\ \A c \in LiveTasks(tasks) : t \notin LiveParents(c, tasks)
               /\ t.dueAt # Null) => t \in Bucketed(tree[1])

(* the calendar was computed for a collection with a live task that has a
   due date and a live child, and a soft-deleted task with a due date:
   neither is in a bucket, the child is *)
C19_Witness ==
    /\ tree # Null
    /\ last.op = "calendar"
    /\ \E t \in LiveTasks(tasks), c \in LiveTasks(tasks), x \in DeletedTasks(tasks) :
          /\ t \in LiveParents(c, tasks)
          /\ t.dueAt # Null
          /\ x.dueAt # Null
          /\ t \notin Bucketed(tree[1])
          /\ x \notin Bucketed(tree[1])
          /\ c \in Bucketed(tree[1])

(* C20: the key under which a task is bucketed is the local calendar day of
   its due instant, in every zone: a due date set to local midnight of day D
   has key D, and a task visible in the today view for now is bucketed under
   the key of now's local date. *)
C20_CalendarKeyIsLocalDay ==
    \A t \in LiveTasks(tasks) :
        t.dueAt # Null =>
            /\ getTaskDueDateKey(t) = toDateKey(newDate(t.dueAt), tz)
            /\ isVisibleInView(t, "today", now, tz)
                  => getTaskDueDateKey(t) = toDateKey(now, tz)
            /\ (/\ tree # Null
                /\ last.op = "calendar"
                /\ isVisibleInView(t, "today", now, tz)
                /\ ~hasChildren(t, tasks))
                  => /\ toDateKey(now, tz) \in DOMAIN tree[1]
                     /\ \E i \in 1..Len(tree[1][toDateKey(now, tz)]) :
                           tree[1][toDateKey(now, tz)][i] = t

----------------------------------------------------------------------------
(* the parentId chain of the live task t leads back to taskId in at most
   n + 1 links: t names taskId as its parent, or a live task that t names as
   its parent does.  A link to a soft-deleted or missing task is dangling and
   ends the chain. *)
RECURSIVE LeadsBack(_, _, _, _)
LeadsBack(t, taskId, ts, n) ==
    \/ t.parentId = taskId
    \/ /\ n > 0
       /\ \E q \in LiveParents(t, ts) : LeadsBack(q, taskId, ts, n - 1)

(* C21: getAllDescendantIds(taskId, tasks), when it returns, returns exactly
   the ids of the live tasks whose parentId chain leads back to taskId, and
   never taskId itself. *)
C21_DescendantIdsExact ==
    (last.op = "descendants" /\ last.returns) =>
        /\ last.ids = {t.id : t \in {q \in LiveTasks(tasks) :
                                        LeadsBack(q, last.id, tasks, Len(tasks))}}
        /\ last.id \notin last.ids

(* getAllDescendantIds returned for a task with a child and a grandchild, and
   both ids are in the result *)
C21_Witness ==
    /\ last.op = "descendants"
    /\ last.returns
    /\ Len(tasks) >= 3
    /\ \E c, g \in LiveTasks(tasks) :
          /\ c.parentId = last.id /\ g.parentId = c.id
          /\ {c.id, g.id} \subseteq last.ids

----------------------------------------------------------------------------
(* the task of the collection with the given id; ids are pairwise distinct *)
TaskOf(id, ts) == CHOOSE t \in Range(ts) : t.id = id

IsLiveId(id, ts) == \E t \in LiveTasks(ts) : t.id = id

(* C22: getAncestorIds(taskId, tasks), when it returns, returns for a live
   task the ids on its parentId chain, from the immediate parent to the
   topmost ancestor: the first is the task's parentId, each next one the
   parentId of the one before, every one the id of a live task, and the chain
   ends where the parentId is null or names a missing or soft-deleted task
   (the ancestors above a soft-deleted one are not returned); for a
   soft-deleted or unknown taskId it returns the empty list. *)
C22_AncestorIdsOrdered ==
    (last.op = "ancestors" /\ last.returns) =>
        LET ids == last.ids
            link(k) == IF k = 0 THEN TaskOf(last.id, tasks).parentId
                       ELSE TaskOf(ids[k], tasks).parentId
        IN IF ~IsLiveId(last.id, tasks) THEN ids = <<>>
           ELSE /\ \A k \in 1..Len(ids) :
                      ids[k] = link(k - 1) /\ IsLiveId(ids[k], tasks)
                /\ ~IsLiveId(link(Len(ids)), tasks)

(* getAncestorIds returned the parent and the grandparent of a live task, in
   this order, and stopped at the grandparent's dangling parentId *)
C22_Witness ==
    /\ last.op = "ancestors"
    /\ last.returns
    /\ Len(last.ids) = 2
    /\ last.ids[1] = TaskOf(last.id, tasks).parentId
    /\ last.ids[1] # last.ids[2]
    /\ TaskOf(last.ids[2], tasks).parentId # NullId

----------------------------------------------------------------------------
(* the fields of a task that a toggle may change *)
ToggledFields == {"completed", "updatedAt"}

(* C23: a toggle on task X changes the completed flag of no task other than X
   and those live ancestors of X that have a live descendant and all their
   live descendants completed in the result, and those it switches to
   completed; the descendants and siblings of X keep their flag, and every
   field other than completed and updatedAt is unchanged on every task. *)
C23_ToggleFrame ==
    [][(last'.op = "toggle" /\ tasks' # tasks) =>
          /\ Len(tasks') = Len(tasks)
          /\ \A i \in 1..Len(tasks) :
                /\ \A f \in DOMAIN tasks[i] \ ToggledFields :
                      tasks'[i][f] = tasks[i][f]
                /\ tasks'[i].completed # tasks[i].completed =>
                      \/ tasks[i].id = last'.id
                      \/ /\ tasks[i] \in LiveAncestors(findById(last'.id, tasks), tasks)
                         /\ tasks'[i].completed
                         /\ LiveDescendants(tasks'[i], tasks') # {}
                         /\ \A d \in LiveDescendants(tasks'[i], tasks') : d.completed]_vars

(* the last toggle completed a task and, by the cascade, its parent, while a
   child of the task that was completed before kept its flag *)
C23_Witness ==
    /\ last.op = "toggle"
    /\ LET x == findById(last.id, tasks)
       IN /\ x.completed
          /\ \E p \in LiveParents(x, tasks) :
                /\ p.completed /\ p.updatedAt = x.updatedAt
                /\ newDate(p.createdAt) < newDate(p.updatedAt)
          /\ \E c \in LiveTasks(tasks) :
                /\ x \in LiveParents(c, tasks)
                /\ c.completed
                /\ newDate(c.updatedAt) < newDate(x.updatedAt)

----------------------------------------------------------------------------
(* C24: buildTaskTree does not depend on the order of the input: for two
   orders of the same tasks with pairwise distinct createdAt the forests are
   equal, with the same links, depths and sibling order, also when a child
   precedes its parent in the input. *)
C24_TreeOrderIndependent ==
    last.op = "permute" => tree[1] = flat[1]

(* two forests built from two different orders of a collection in which a
   parent has two children: in one order a child precedes the parent, in the
   other the parent comes first, and the children are in the two orders *)
C24_Witness ==
    /\ last.op = "permute"
    /\ \E q, a, b \in LiveTasks(tasks) :
          /\ a # b
          /\ q \in LiveParents(a, tasks)
          /\ q \in LiveParents(b, tasks)
          /\ IndexOf(a, tasks) < IndexOf(q, tasks)
          /\ last.perm[1] = IndexOf(q, tasks)
          /\ IndexOf(a, tasks) < IndexOf(b, tasks)
          /\ \E i, j \in 1..Len(tasks) :
                i < j /\ tasks[last.perm[i]] = b /\ tasks[last.perm[j]] = a
          /\ \E k \in 1..Len(tree[1]) :
                tree[1][k].task = q /\ Len(tree[1][k].children) = 2

----------------------------------------------------------------------------
(* the live tasks on a cycle of parentId links *)
OnCycle(ts) == {t \in LiveTasks(ts) : t \in LiveAncestors(t, ts)}

(* C25: getAncestorIds, getAllDescendantIds and buildTaskTree terminate on
   every finite collection, also when the parentId links form a cycle (a task
   that is its own parent, or two tasks that are each other's parent), and
   the tasks on a cycle are placed as roots. *)
C25_TerminatesOnCycles ==
    /\ last.op \in {"descendants", "ancestors"} => last.returns
    /\ tree # Null =>
          \A t \in OnCycle(tasks) :
              \E i \in 1..Len(tree[1]) : tree[1][i].task = t /\ tree[1][i].depth = 0

----------------------------------------------------------------------------
(* the ids reached from id by following parentId upwards through the tasks
   of the collection, soft-deleted or not, in at most n steps *)
RECURSIVE ChainAbove(_, _, _)
ChainAbove(id, ts, n) ==
    IF n = 0 THEN {}
    ELSE LET P == {t.parentId : t \in {q \in Range(ts) : q.id = id /\ q.parentId # NullId}}
         IN P \cup UNION {ChainAbove(q, ts, n - 1) : q \in P}

(* C26: from the empty collection on, the parentId links stay acyclic: no
   action changes the parentId of a task, a new task's parentId is null or
   the id of a task created before it, the ids stay pairwise distinct and no
   task is its own ancestor. *)
C26_LinksStayAcyclic ==
    [][/\ \A i \in 1..Len(tasks) :
             \E j \in 1..Len(tasks') :
                 /\ tasks'[j].id = tasks[i].id
                 /\ tasks'[j].parentId = tasks[i].parentId
       /\ \A j \in 1..Len(tasks') :
             (\A i \in 1..Len(tasks) : tasks[i].id # tasks'[j].id) =>
                 \/ tasks'[j].parentId = NullId
                 \/ \E i \in 1..Len(tasks) :
                       /\ tasks[i].id = tasks'[j].parentId
                       /\ newDate(tasks[i].createdAt) <= newDate(tasks'[j].createdAt)
       /\ \A i, j \in 1..Len(tasks') : tasks'[i].id = tasks'[j].id => i = j
       /\ \A t \in Range(tasks') : t.id \notin ChainAbove(t.id, tasks', Len(tasks'))]_vars

(* a chain of a task, its subtask and the subtask's subtask, after a toggle,
   a rename or a change of due date of the task in the middle *)
C26_Witness ==
    /\ last.op \in {"toggle", "rename", "due"}
    /\ \E t, c, g \in Range(tasks) :
          /\ c.parentId = t.id /\ g.parentId = c.id /\ t.parentId = NullId
          /\ last.id = c.id
          /\ ChainAbove(g.id, tasks, Len(tasks)) = {c.id, t.id}

----------------------------------------------------------------------------
(* C27: from the empty collection on, in every state the user's actions
   reach, also with a subtask input that was opened for a task deleted before
   the subtask is committed, the parentId of every live task is null or the
   id of a live task. *)
C27_LiveTasksHaveLiveParents ==
    \A t \in LiveTasks(tasks) : ~IsDangling(t, tasks)

(* the subtask input was opened for a task that was then deleted together
   with its subtask, before a subtask was committed; another task is live *)
C27_Witness ==
    /\ addingSubtaskFor # NullId
    /\ last.op = "delete"
    /\ \E p, c \in DeletedTasks(tasks) :
          p.id = addingSubtaskFor /\ c.parentId = p.id
    /\ LiveTasks(tasks) # {}

----------------------------------------------------------------------------
(* the ids of the tasks that a text under STORAGE_KEY holds: those of the
   tasks loadTasks reads from it when the storage works *)
StoredIds(item) ==
    LET r == loadTasks([NoStorage EXCEPT !.item = item])
    IN {r.value[i].id : i \in 1..Len(r.value)}

(* C28: during start-up the stored snapshot is never overwritten by a
   collection that omits a task that was in storage when the application
   started: the persistence effect does not save the empty collection of the
   first render over the stored data before the loaded collection is
   installed. *)
C28_StartupKeepsStored ==
    last.op \in {"load", "saveFirst", "render", "save"} =>
        StoredIds(last.item) \subseteq StoredIds(storage.item)

----------------------------------------------------------------------------
(* saveTasks has run with the in-memory collection: unless the writes fail,
   the stored text is the snapshot of exactly this collection, and loadTasks,
   by either definition, returns its tasks in its order *)
Persisted ==
    /\ last.op = "persist"
    /\ ~storage.setFails =>
          /\ storage.item = JSONstringify(JObject(TASK_STORAGE_VERSION, JArray(tasks)))
          /\ loadTasks(storage) = Return(tasks)
          /\ loadTasks_2(storage) = Return(tasks)

(* C29: whenever an action of the user replaces the in-memory collection,
   saveTasks is invoked afterwards with exactly that collection: when the
   writes succeed the stored snapshot then equals the in-memory collection,
   and a later loadTasks returns the same tasks in the same order. *)
C29_PersistedAfterAction ==
    /\ [][last'.op = "persist" => (EffectPending /\ tasks' = tasks)]_vars
    /\ \A n \in 0..MaxTasks :
          (EffectPending /\ Len(tasks) = n) ~> (Persisted /\ Len(tasks) = n)

(* a collection of a task and its soft-deleted subtask has been saved to a
   working storage after the delete, and loadTasks returns it *)
C29_Witness ==
    /\ Persisted
    /\ ~storage.setFails
    /\ Len(tasks) >= 2
    /\ DeletedTasks(tasks) # {}
    /\ LiveTasks(tasks) # {}
    /\ loadTasks(storage).value = tasks

----------------------------------------------------------------------------
(* the task passes the filter of the list that was rendered last *)
PassesFilter(t) ==
    isVisibleInView(t, last.view, now, tz) /\ matchesSearch(t, last.query)

(* C30: the forest of a list view is built from the filtered tasks only:
   every task that passes isVisibleInView and matchesSearch is in it exactly
   once, a passing subtask whose parent does not pass is a root with depth 0,
   and no task that fails the filter is in it. *)
C30_ForestOfFilteredTasks ==
    last.op = "list" =>
        LET nodes == flattenTaskTree(tree[1])
        IN /\ \A t \in Range(tasks) :
                 PassesFilter(t) =>
                     /\ Cardinality({k \in 1..Len(nodes) : nodes[k].task = t}) = 1
                     /\ (/\ t.parentId # NullId
                         /\ \A q \in Range(tasks) :
                               q.id = t.parentId => ~PassesFilter(q))
                           => \E i \in 1..Len(tree[1]) :
                                  tree[1][i].task = t /\ tree[1][i].depth = 0
           /\ \A k \in 1..Len(nodes) :
                 nodes[k].task \in Range(tasks) /\ PassesFilter(nodes[k].task)

(* a list rendered with a search text that a subtask matches and its live
   parent does not: the subtask is a root, the parent is not shown, and a
   subtask of the subtask is shown below it *)
C30_Witness ==
    /\ last.op = "list"
    /\ last.query # <<>>
    /\ \E q, t, g \in LiveTasks(tasks) :
          /\ q \in LiveParents(t, tasks)
          /\ t \in LiveParents(g, tasks)
          /\ ~PassesFilter(q)
          /\ isVisibleInView(q, last.view, now, tz)
          /\ PassesFilter(t)
          /\ PassesFilter(g)
          /\ Len(tree[1]) = 1
          /\ tree[1][1].task = t
          /\ tree[1][1].depth = 0
          /\ Len(tree[1][1].children) = 1
          /\ tree[1][1].children[1].task = g

====
